---- MODULE Spec2Model ----
(***************************************************************************)
(* Shape strategies of hypothesis.extra._array_helpers:                    *)
(* broadcastable_shapes, mutually_broadcastable_shapes and the draw of     *)
(* MutuallyBroadcastableShapesStrategy (core dimensions of a gufunc        *)
(* signature, loop dimensions, add_shape).                                 *)
(*                                                                         *)
(* Shapes are sequences of naturals in natural (row-major) order; the draw *)
(* keeps them reversed (column-major) exactly as the code does.  A         *)
(* dimension token of a signature is a sequence of one-character strings.  *)
(***************************************************************************)
EXTENDS Integers, Sequences, FiniteSets, TLC

VARIABLES
    pc,            \* position of the caller: "call", "raised", "ready", "done", "failed",
                   \* "rejected" and the places inside a draw
    args,          \* the keyword arguments of the constructor call
    strat,         \* fields of MutuallyBroadcastableShapesStrategy (self)
    error,         \* why construction raised InvalidArgument ("" when it did not)
    dims,          \* _draw_core_dimensions: dims
    core,          \* _draw_core_dimensions: shapes (inputs, then the result)
    tok,           \* _draw_core_dimensions: number of tokens already walked
    use,           \* _draw_loop_dimensions: use
    shapes,        \* _draw_loop_dimensions: shapes (reversed)
    result_shape,  \* _draw_loop_dimensions: result_shape (reversed)
    dim_count,     \* _draw_loop_dimensions: dim_count
    dim_side,      \* _draw_loop_dimensions: dim_side
    shape_id,      \* _draw_loop_dimensions: shape_id (1-based)
    ndraws,        \* primitive draws made so far, per kind and shape
    loop,          \* the BroadcastableShapes returned by _draw_loop_dimensions
    ret,           \* the value the call or the draw returns to the caller
    trace,         \* the primitive draws of this draw, in order, each <<kind, result>>
    first,         \* what an earlier draw from the same strategy drew and returned
    result,        \* BasicIndexStrategy.do_draw, ArrayStrategy.do_draw: result
    result_dims,   \* BasicIndexStrategy.do_draw: result_dims
    seen,          \* ArrayStrategy.do_draw: seen
    i_,            \* ArrayStrategy.do_draw: i
    index_set,     \* ArrayStrategy.do_draw: index_set (the indices set to True); in
                   \* numpy.py, needs_fill (the indices set to False)
    elements,      \* ArrayStrategy.do_draw: elements (the state of cu.many)
    fill_val,      \* ArrayStrategy.do_draw: fill_val
    element_draws, \* number of values drawn from elements_strategy in this draw
    warnings       \* the warnings emitted so far

vars == <<pc, args, strat, error, dims, core, tok, use, shapes, result_shape,
          dim_count, dim_side, shape_id, ndraws, loop, ret, trace, first,
          result, result_dims, seen, i_, index_set, elements, fill_val, element_draws,
          warnings>>

-----------------------------------------------------------------------------
(* Constants of the program and Python values                               *)

NDIM_MAX == 32

\* Python's None and hypothesis' not_set, kept apart from every side and count
None == -1
not_set == -2

Min(a, b) == IF a <= b THEN a ELSE b
Max(a, b) == IF a >= b THEN a ELSE b

\* shape[::-1]
Reversed(s) == [i \in 1..Len(s) |-> s[Len(s) + 1 - i]]

\* s[:n] for n >= 0
Prefix(s, n) == SubSeq(s, 1, Min(n, Len(s)))

\* s[-n:] for n >= 0; Python reads s[-0:] as s[0:], the whole sequence
LastN(s, n) == IF n = 0 \/ n >= Len(s) THEN s ELSE SubSeq(s, Len(s) - n + 1, Len(s))

\* max() of a non-empty tuple
MaxOf(s) == CHOOSE m \in {s[i] : i \in 1..Len(s)} : \A i \in 1..Len(s) : s[i] <= m

-----------------------------------------------------------------------------
(* Validators                                                               *)

\* the two tests are made in the other order
OrderCheckMessage_MaxFirst(floor, min_, max_) ==
    IF min_ > max_ THEN "is larger than max"
    ELSE IF floor > min_ THEN "must be at least"
    ELSE ""

\* the message order_check raises InvalidArgument with, "" when it returns
OrderCheckMessage(floor, min_, max_) ==
    IF floor > min_ THEN "must be at least"
    ELSE IF min_ > max_ THEN "is larger than max"
    ELSE ""

\* order_check raises (TRUE) when floor > min_ or min_ > max_
order_check(floor, min_, max_) == OrderCheckMessage(floor, min_, max_) # ""

\* check_valid_dims raises (TRUE) when dims > NDIM_MAX
check_valid_dims(n) == n > NDIM_MAX

-----------------------------------------------------------------------------
(* Feasibility of broadcasting against a base shape                         *)

\* strict_check of broadcastable_shapes
StrictCheckBroadcastable(max_dims, max_side) == max_side = None \/ max_dims = None

\* strict_check of mutually_broadcastable_shapes
StrictCheckMutually(max_dims, max_side) == max_dims # None

\* max_dims when the caller passed None
DefaultMaxDims(shape, min_dims, sig_dims) ==
    Min(Max(Len(shape), min_dims) + 2, NDIM_MAX - sig_dims)

\* max_side when the caller passed None
DefaultMaxSide(shape, max_dims, min_side) ==
    MaxOf(LastN(shape, max_dims) \o <<min_side>>) + 2

\* min_side <= 1 <= max_side
SizeOneAllowed(min_side, max_side) == min_side <= 1 /\ 1 <= max_side

\* one axis too few is considered
UnsatisfiableMinSide_OffByOne(shape, dims_, min_side) ==
    LET considered == Prefix(Reversed(shape), Max(dims_ - 1, 0))
    IN  ~ \A i \in 1..Len(considered) :
            considered[i] # 1 => min_side <= considered[i]

\* "check for unsatisfiable min_side": TRUE when the check raises
UnsatisfiableMinSide(shape, dims_, min_side) ==
    LET considered == Prefix(Reversed(shape), dims_)
    IN  ~ \A i \in 1..Len(considered) :
            considered[i] # 1 => min_side <= considered[i]

\* "check for unsatisfiable [min_side, max_side]": TRUE when the check raises
UnsatisfiableSides(shape, dims_, min_side, max_side) ==
    LET considered == Prefix(Reversed(shape), dims_)
    IN  ~ (\/ SizeOneAllowed(min_side, max_side)
           \/ \A i \in 1..Len(considered) : considered[i] <= max_side)

\* the body of the reduction loop: axis side s stops the loop
AxisUnsatisfiable(s, min_side, max_side) ==
    \/ s < min_side /\ s # 1
    \/ ~ (SizeOneAllowed(min_side, max_side) \/ s <= max_side)

\* max_dims is not reduced
ReduceMaxDims_NotReduced(shape, max_dims, min_side, max_side) == max_dims

\* max_dims is reduced to the last unsatisfiable axis instead of the first
ReduceMaxDims_Last(shape, max_dims, min_side, max_side) ==
    LET rev == Reversed(shape)
        bad == {n \in 0..(Min(max_dims, Len(rev)) - 1) :
                    AxisUnsatisfiable(rev[n + 1], min_side, max_side)}
    IN  IF bad = {} THEN max_dims
        ELSE CHOOSE n \in bad : \A m \in bad : n >= m

\* "reduce max_dims to exclude unsatisfiable dimensions"
ReduceMaxDims(shape, max_dims, min_side, max_side) ==
    LET rev == Reversed(shape)
        bad == {n \in 0..(Min(max_dims, Len(rev)) - 1) :
                    AxisUnsatisfiable(rev[n + 1], min_side, max_side)}
    IN  IF bad = {} THEN max_dims
        ELSE CHOOSE n \in bad : \A m \in bad : n <= m

-----------------------------------------------------------------------------
(* gufunc signatures                                                        *)

Digits == {"0", "1", "2", "3", "4", "5", "6", "7", "8", "9"}

DigitValue(c) ==
    CASE c = "0" -> 0 [] c = "1" -> 1 [] c = "2" -> 2 [] c = "3" -> 3
      [] c = "4" -> 4 [] c = "5" -> 5 [] c = "6" -> 6 [] c = "7" -> 7
      [] c = "8" -> 8 [] c = "9" -> 9

\* str.isdigit
isdigit(name) == Len(name) > 0 /\ \A i \in 1..Len(name) : name[i] \in Digits

\* int(name) of a string of digits
RECURSIVE int(_)
int(name) ==
    IF Len(name) = 0 THEN 0
    ELSE 10 * int(SubSeq(name, 1, Len(name) - 1)) + DigitValue(name[Len(name)])

\* name.strip("?"): drops every leading and trailing "?"
RECURSIVE strip(_)
strip(name) ==
    IF Len(name) = 0 THEN name
    ELSE IF name[1] = "?" THEN strip(Tail(name))
    ELSE IF name[Len(name)] = "?" THEN strip(SubSeq(name, 1, Len(name) - 1))
    ELSE name

\* The parsed form (_GUfuncSig) of the signatures the model calls with.
\* The named ones are the examples the source lists; "(m?),(n)->(m?,n)" and
\* "(a,b),(b)->(a)" have shapes of different core lengths.
_GUfuncSig(signature) ==
    CASE signature = "(i),(i)->()" ->
            [input_shapes |-> << <<<<"i">>>>, <<<<"i">>>> >>,
             result_shape |-> << >>]
      [] signature = "(m?,n),(n,p?)->(m?,p?)" ->
            [input_shapes |-> << <<<<"m", "?">>, <<"n">>>>, <<<<"n">>, <<"p", "?">>>> >>,
             result_shape |-> <<<<"m", "?">>, <<"p", "?">>>>]
      [] signature = "(3),(3)->(3)" ->
            [input_shapes |-> << <<<<"3">>>>, <<<<"3">>>> >>,
             result_shape |-> <<<<"3">>>>]
      [] signature = "(m?),(n)->(m?,n)" ->
            [input_shapes |-> << <<<<"m", "?">>>>, <<<<"n">>>> >>,
             result_shape |-> <<<<"m", "?">>, <<"n">>>>]
      [] signature = "(a,b),(b)->(a)" ->
            [input_shapes |-> << <<<<"a">>, <<"b">>>>, <<<<"b">>>> >>,
             result_shape |-> <<<<"a">>>>]

\* input_shapes + (result_shape,)
AllShapes(sig) == sig.input_shapes \o <<sig.result_shape>>

\* sig_dims = min(len(s) for s in all_shapes)
SigDims(sig) ==
    LET lens == {Len(AllShapes(sig)[k]) : k \in 1..Len(AllShapes(sig))}
    IN  CHOOSE m \in lens : \A l \in lens : m <= l

-----------------------------------------------------------------------------
(* _hypothesis_parse_gufunc_signature                                       *)
(* The signature it is given is a sequence of one-character strings.  The   *)
(* regular expressions are matched as re.match matches them: each operator  *)
(* gives the position after the longest match that starts at position i, 0  *)
(* when there is none.  No two alternatives of these expressions can start  *)
(* with the same character, so the longest match is the only one that can   *)
(* be continued.                                                            *)

Letters == {"a", "b", "i", "m", "n", "p"}

\* \w
WordChars == Letters \cup Digits \cup {"_"}

\* \w+ is greedy: the position after the run of word characters at i
RECURSIVE WordEnd(_, _)
WordEnd(s, i) ==
    IF i <= Len(s) /\ s[i] \in WordChars THEN WordEnd(s, i + 1) ELSE i

\* body(value): the value is computed once, where it is named
With(value, body(_)) == CHOOSE r \in {body(v) : v \in {value}} : TRUE

\* _DIMENSION = \w+\??  (NumPy's own expression has \w+, no "?")
_DIMENSION(s, i, optional) ==
    With(WordEnd(s, i), LAMBDA j :
        IF j = i THEN 0
        ELSE IF optional /\ j <= Len(s) /\ s[j] = "?" THEN j + 1
        ELSE j)

\* {0}(?:,{0}){0,31}: at most cap dimensions
RECURSIVE DimensionList(_, _, _, _)
DimensionList(s, i, optional, cap) ==
    With(_DIMENSION(s, i, optional), LAMBDA j :
        IF j = 0 THEN 0
        ELSE IF cap > 1 /\ j <= Len(s) /\ s[j] = "," /\ _DIMENSION(s, j + 1, optional) # 0
        THEN DimensionList(s, j + 1, optional, cap - 1)
        ELSE j)

\* _SHAPE = \((?:{0}(?:,{0}){0,31})?\)
_SHAPE(s, i, optional, cap) ==
    IF i > Len(s) \/ s[i] # "(" THEN 0
    ELSE IF i + 1 <= Len(s) /\ s[i + 1] = ")" THEN i + 2
    ELSE With(DimensionList(s, i + 1, optional, cap), LAMBDA j :
             IF j # 0 /\ j <= Len(s) /\ s[j] = ")" THEN j + 1 ELSE 0)

\* _ARGUMENT_LIST = {0}(?:,{0})*
RECURSIVE _ARGUMENT_LIST(_, _, _, _)
_ARGUMENT_LIST(s, i, optional, cap) ==
    With(_SHAPE(s, i, optional, cap), LAMBDA j :
        IF j = 0 THEN 0
        ELSE IF j <= Len(s) /\ s[j] = "," /\ _SHAPE(s, j + 1, optional, cap) # 0
        THEN _ARGUMENT_LIST(s, j + 1, optional, cap)
        ELSE j)

\* "->" at position j
Arrow(s, j) == j + 1 <= Len(s) /\ s[j] = "-" /\ s[j + 1] = ">"

\* "$" matches at the end of the string and before a newline that ends it
AtEnd(s, j) == j = Len(s) + 1 \/ (j = Len(s) /\ s[j] = "\n")

\* re.match(_SIGNATURE, signature)
_SIGNATURE(s) ==
    \E j \in {_ARGUMENT_LIST(s, 1, TRUE, NDIM_MAX)} :
        /\ j # 0
        /\ Arrow(s, j)
        /\ \E k \in {_SHAPE(s, j + 2, TRUE, NDIM_MAX)} : k # 0 /\ AtEnd(s, k)

\* re.match(_SIGNATURE_MULTIPLE_OUTPUT, signature)
_SIGNATURE_MULTIPLE_OUTPUT(s) ==
    \E j \in {_ARGUMENT_LIST(s, 1, TRUE, NDIM_MAX)} :
        /\ j # 0
        /\ Arrow(s, j)
        /\ \E k \in {_ARGUMENT_LIST(s, j + 2, TRUE, NDIM_MAX)} : k # 0 /\ AtEnd(s, k)

\* the expression taken from np.lib.function_base._SIGNATURE: no "?", any
\* number of dimensions in a shape, any number of outputs
NumpySignature(s) ==
    \E j \in {_ARGUMENT_LIST(s, 1, FALSE, Len(s) + 1)} :
        /\ j # 0
        /\ Arrow(s, j)
        /\ \E k \in {_ARGUMENT_LIST(s, j + 2, FALSE, Len(s) + 1)} : k # 0 /\ AtEnd(s, k)

\* re.findall(_DIMENSION, a): the matches found scanning a from the left
RECURSIVE FindDimensions(_, _)
FindDimensions(a, i) ==
    IF i > Len(a) THEN << >>
    ELSE LET j == _DIMENSION(a, i, TRUE)
         IN  IF j = 0 THEN FindDimensions(a, i + 1)
             ELSE <<SubSeq(a, i, j - 1)>> \o FindDimensions(a, j)

\* re.findall(_SHAPE, arg_list)
RECURSIVE FindShapes(_, _)
FindShapes(a, i) ==
    IF i > Len(a) THEN << >>
    ELSE LET j == _SHAPE(a, i, TRUE, NDIM_MAX)
         IN  IF j = 0 THEN FindShapes(a, i + 1)
             ELSE <<SubSeq(a, i, j - 1)>> \o FindShapes(a, j)

\* tuple(tuple(re.findall(_DIMENSION, a)) for a in re.findall(_SHAPE, arg_list))
ShapesOf(arg_list) ==
    LET found == FindShapes(arg_list, 1)
    IN  [k \in 1..Len(found) |-> FindDimensions(found[k], 1)]

\* input_shapes, output_shapes and result_shape = output_shapes[0]
SplitShapes(s) ==
    LET j == CHOOSE j \in 1..Len(s) : Arrow(s, j)
    IN  [input_shapes |-> ShapesOf(SubSeq(s, 1, j - 1)),
         result_shape |-> ShapesOf(SubSeq(s, j + 2, Len(s)))[1]]

\* int(name) returns for a string of word characters: digits, single
\* underscores between them allowed; it raises ValueError otherwise
IntAccepts(name) ==
    /\ Len(name) > 0
    /\ \A i \in 1..Len(name) : name[i] \in Digits \cup {"_"}
    /\ name[1] \in Digits /\ name[Len(name)] \in Digits
    /\ \A i \in 1..(Len(name) - 1) : ~ (name[i] = "_" /\ name[i + 1] = "_")

\* "?" in name
HasMark(name) == \E i \in 1..Len(name) : name[i] = "?"

\* {n.strip("?") for n in shp}, over several shapes
StrippedNames(shps) ==
    {strip(shps[k][i]) : <<k, i>> \in {<<k, i>> \in (1..Len(shps)) \X (1..NDIM_MAX) :
                                          i <= Len(shps[k])}}

\* the body of the two nested loops for one name: the error it raises
\* the name is looked up as written, "?" included
NameError_Unstripped(name, names_in, names_out) ==
    IF IntAccepts(strip(name))
    THEN IF HasMark(name) THEN "frozen optional" ELSE ""
    ELSE IF name \in (names_out \ names_in) THEN "only out" ELSE ""

\* InvalidArgument is not a ValueError: the except clause does not catch the
\* frozen_optional_err raised in the try block
NameError(name, names_in, names_out) ==
    IF IntAccepts(strip(name))
    THEN IF HasMark(name) THEN "frozen optional" ELSE ""
    ELSE IF strip(name) \in (names_out \ names_in) THEN "only out" ELSE ""

\* for shape in input_shapes + (result_shape,): for name in shape: the first
\* error raised, "" when the loops end
RECURSIVE FirstNameError(_, _, _, _, _)
FirstNameError(shps, k, i, names_in, names_out) ==
    IF k > Len(shps) THEN ""
    ELSE IF i > Len(shps[k]) THEN FirstNameError(shps, k + 1, 1, names_in, names_out)
    ELSE LET e == NameError(shps[k][i], names_in, names_out)
         IN  IF e # "" THEN e
             ELSE FirstNameError(shps, k, i + 1, names_in, names_out)

\* the error chosen for a signature that does not match _SIGNATURE
\* the two fallback tests are made in the other order
NoMatchError_NumpyFirst(s) ==
    IF NumpySignature(s) THEN "more than NDIM_MAX dimensions"
    ELSE IF _SIGNATURE_MULTIPLE_OUTPUT(s) THEN "multiple output arrays"
    ELSE "not a valid gufunc signature"

NoMatchError(s) ==
    IF _SIGNATURE_MULTIPLE_OUTPUT(s) THEN "multiple output arrays"
    ELSE IF NumpySignature(s) THEN "more than NDIM_MAX dimensions"
    ELSE "not a valid gufunc signature"

NoSig == [input_shapes |-> << >>, result_shape |-> << >>]

\* _hypothesis_parse_gufunc_signature(signature, all_checks)
_hypothesis_parse_gufunc_signature(signature, all_checks) ==
    IF ~ _SIGNATURE(signature)
    THEN [error |-> NoMatchError(signature), sig |-> NoSig]
    ELSE LET sig       == SplitShapes(signature)
             names_in  == StrippedNames(sig.input_shapes)
             names_out == StrippedNames(<<sig.result_shape>>)
             e         == IF all_checks
                          THEN FirstNameError(AllShapes(sig), 1, 1, names_in, names_out)
                          ELSE ""
         IN  IF e # "" THEN [error |-> e, sig |-> NoSig]
             ELSE [error |-> "", sig |-> sig]

-----------------------------------------------------------------------------
(* The constructors                                                         *)

NoStrategy ==
    [num_shapes |-> 0, signature |-> "None", base_shape |-> << >>, min_dims |-> 0,
     max_dims |-> 0, min_side |-> 0, max_side |-> 0, size_one_allowed |-> FALSE]

\* MutuallyBroadcastableShapesStrategy.__init__
Strategy(num_shapes, signature, base_shape, min_dims, max_dims, min_side, max_side) ==
    [num_shapes |-> num_shapes, signature |-> signature, base_shape |-> base_shape,
     min_dims |-> min_dims, max_dims |-> max_dims,
     min_side |-> min_side, max_side |-> max_side,
     size_one_allowed |-> SizeOneAllowed(min_side, max_side)]

Raise(why) == [error |-> why, strat |-> NoStrategy]

\* The part the two constructors share: defaults, order checks, feasibility
\* checks against the base shape, reduction of max_dims, the strategy.
CheckBounds(a, strict_check, num_shapes, signature, sig_dims) ==
    IF check_valid_dims(a.min_dims) THEN Raise("min_dims > NDIM_MAX")
    ELSE
    LET max_dims == IF a.max_dims = None
                    THEN DefaultMaxDims(a.shape, a.min_dims, sig_dims)
                    ELSE a.max_dims
    IN
    IF check_valid_dims(max_dims) THEN Raise("max_dims > NDIM_MAX")
    ELSE
    LET max_side == IF a.max_side = None
                    THEN DefaultMaxSide(a.shape, max_dims, a.min_side)
                    ELSE a.max_side
        dims_    == IF strict_check THEN max_dims ELSE a.min_dims
    IN
    IF order_check(0, a.min_dims, max_dims) THEN Raise("order of dims")
    ELSE IF order_check(0, a.min_side, max_side) THEN Raise("order of side")
    ELSE IF max_dims > NDIM_MAX - sig_dims THEN Raise("max_dims exceeds limit given signature")
    ELSE IF UnsatisfiableMinSide(a.shape, dims_, a.min_side)
         THEN Raise("unsatisfiable min_side")
    ELSE IF UnsatisfiableSides(a.shape, dims_, a.min_side, max_side)
         THEN Raise("unsatisfiable min_side, max_side")
    ELSE
    LET reduced == IF ~ strict_check
                   THEN ReduceMaxDims(a.shape, max_dims, a.min_side, max_side)
                   ELSE max_dims
    IN  [error |-> "",
         strat |-> Strategy(num_shapes, signature, a.shape, a.min_dims, reduced,
                            a.min_side, max_side)]

broadcastable_shapes(a) ==
    CheckBounds(a, StrictCheckBroadcastable(a.max_dims, a.max_side), 1, "None", 0)

\* only the call that passes neither argument is rejected
ArgMsgRaised_OnlyNeither(num_shapes, signature) ==
    num_shapes = not_set /\ signature = "not_set"

\* the two check_argument(..., arg_msg) calls: TRUE when one of them raises
ArgMsgRaised(num_shapes, signature) ==
    IF num_shapes # not_set THEN ~ (signature = "not_set")
    ELSE ~ (signature # "not_set")

mutually_broadcastable_shapes(a) ==
    IF ArgMsgRaised(a.num_shapes, a.signature) THEN Raise("arg_msg")
    ELSE
    LET parsed     == a.signature # "not_set"
        sig_dims   == IF parsed THEN SigDims(_GUfuncSig(a.signature)) ELSE 0
        num_shapes == IF parsed THEN Len(_GUfuncSig(a.signature).input_shapes)
                      ELSE a.num_shapes
    IN
    IF num_shapes < 1 THEN Raise("num_shapes must be at least 1")
    ELSE CheckBounds(a, StrictCheckMutually(a.max_dims, a.max_side), num_shapes,
                     IF parsed THEN a.signature ELSE "None", sig_dims)

Constructor(a) ==
    IF a.api = "broadcastable_shapes" THEN broadcastable_shapes(a)
    ELSE mutually_broadcastable_shapes(a)

-----------------------------------------------------------------------------
(* The draw: helpers                                                        *)

\* The tokens of input_shapes + (result_shape,) in the order the two nested
\* loops of _draw_core_dimensions visit them, each with the index of its shape
RECURSIVE Walk(_, _)
Walk(all_shapes, k) ==
    IF k > Len(all_shapes) THEN << >>
    ELSE [j \in 1..Len(all_shapes[k]) |-> [shape |-> k, name |-> all_shapes[k][j]]]
         \o Walk(all_shapes, k + 1)

WalkOf(signature) == Walk(AllShapes(_GUfuncSig(signature)), 1)

\* data.draw(self.side_strat)
SideStrat(st) == st.min_side..st.max_side

\* min_dims is not looked at: a name may be omitted whenever the bits are zero
Omitted_IgnoresMinDims(min_dims, bits) == bits = 0

\* "if self.min_dims == 0 and not data.draw_bits(3)": the optional form of a
\* name is omitted.  The three bits are drawn only when min_dims == 0; otherwise
\* bits is not looked at.
Omitted(min_dims, bits) == min_dims = 0 /\ bits = 0

\* one decision is made for all names: a name is omitted exactly when the
\* names bound before it were
BindName_Together(dims_, name, drawn, omitted) ==
    LET dim   == strip(name)
        bound == (dim :> drawn) @@ dims_
        same  == IF DOMAIN dims_ = {} THEN omitted
                 ELSE \E k \in DOMAIN dims_ : dims_[k] = None
    IN  ((dim \o <<"?">>) :> (IF same THEN None ELSE bound[dim])) @@ bound

\* dims after a name that is not yet in it is bound: dims[dim] and dims[dim + "?"]
BindName(dims_, name, drawn, omitted) ==
    LET dim   == strip(name)
        bound == (dim :> drawn) @@ dims_
    IN  ((dim \o <<"?">>) :> (IF omitted THEN None ELSE bound[dim])) @@ bound

\* every shape is in use, whatever its core dimensions
UseOf_AllTrue(core_in) == [k \in 1..Len(core_in) |-> TRUE]

\* use = [None not in shp for shp in core_in]
UseOf(core_in) ==
    [k \in 1..Len(core_in) |-> \A j \in 1..Len(core_in[k]) : core_in[k][j] # None]

\* the base shape is never consulted: dim_side is always drawn from side_strat
BaseDimSide_AlwaysDrawn(base_rev, dim_count_, max_side) == None

\* a base side above max_side is cut down to max_side
BaseDimSide_Clamped(base_rev, dim_count_, max_side) ==
    IF Len(base_rev) < dim_count_ \/ base_rev[dim_count_] = 1 THEN None
    ELSE Min(base_rev[dim_count_], max_side)

\* dim_side when the base shape decides it; None when it is drawn from side_strat
BaseDimSide(base_rev, dim_count_, max_side) ==
    IF Len(base_rev) < dim_count_ \/ base_rev[dim_count_] = 1 THEN None
    ELSE IF base_rev[dim_count_] <= max_side THEN base_rev[dim_count_]
    ELSE 1

\* "if dim_count <= len(base_shape) and self.size_one_allowed": side is sampled
\* from [1, dim_side]
Aligned(base_rev, dim_count_, size_one_allowed) ==
    dim_count_ <= Len(base_rev) /\ size_one_allowed

\* the sides a shape may take at this dimension
SideChoices(base_rev, dim_count_, size_one_allowed, dim_side_) ==
    IF Aligned(base_rev, dim_count_, size_one_allowed) THEN {1, dim_side_}
    ELSE {dim_side_}

\* the coin is drawn only for a shape that is still in use
CoinDrawn_OnlyInUse(min_dims, dim_count_) == min_dims < dim_count_ /\ use[shape_id]

\* "if self.min_dims < dim_count": the continuation coin is drawn
CoinDrawn(min_dims, dim_count_) == min_dims < dim_count_

\* a singleton of result_shape is never overwritten
UpdateResult_NoOverwrite(result_, shape, dim_count_) ==
    IF Len(result_) < Len(shape) THEN Append(result_, shape[Len(shape)])
    ELSE result_

\* the side of the shape handled last is taken, be it 1
UpdateResult_LastWins(result_, shape, dim_count_) ==
    IF Len(result_) < Len(shape) THEN Append(result_, shape[Len(shape)])
    ELSE [result_ EXCEPT ![dim_count_] = shape[Len(shape)]]

\* result_shape after shape (already appended to) was handled at dim_count
UpdateResult(result_, shape, dim_count_) ==
    IF Len(result_) < Len(shape) THEN Append(result_, shape[Len(shape)])
    ELSE IF shape[Len(shape)] # 1 /\ result_[dim_count_] = 1
         THEN [result_ EXCEPT ![dim_count_] = shape[Len(shape)]]
    ELSE result_

\* any(use)
AnyUse(use_) == \E k \in 1..Len(use_) : use_[k]

\* the three assertions before _draw_loop_dimensions returns
LoopAssertions(st, shapes_) ==
    /\ Len(shapes_) = st.num_shapes
    /\ \A k \in 1..Len(shapes_) :
         st.min_dims <= Len(shapes_[k]) /\ Len(shapes_[k]) <= st.max_dims
    /\ \A k \in 1..Len(shapes_) : \A j \in 1..Len(shapes_[k]) :
         st.min_side <= shapes_[k][j] /\ shapes_[k][j] <= st.max_side

\* [x for x in s if x is not None]
DropNone(s) == SelectSeq(s, LAMBDA x : x # None)

\* the core dimensions are put before the loop dimensions
add_shape_CoreFirst(loop_, core_) == DropNone(LastN(core_ \o loop_, NDIM_MAX))

\* the shape is not cut to its trailing NDIM_MAX sides
add_shape_Uncapped(loop_, core_) == DropNone(loop_ \o core_)

\* add_shape of do_draw
add_shape(loop_, core_) == DropNone(LastN(loop_ \o core_, NDIM_MAX))

\* the BroadcastableShapes that _draw_loop_dimensions returns
LoopResult(st, shapes_, result_) ==
    LET longest == MaxOf(<<Len(st.base_shape)>> \o [k \in 1..Len(shapes_) |-> Len(shapes_[k])])
    IN  [input_shapes |-> [k \in 1..Len(shapes_) |-> Reversed(shapes_[k])],
         result_shape |-> Reversed(Prefix(result_, longest))]

\* the BroadcastableShapes that do_draw returns
DrawResult(st, loop_, core_) ==
    IF st.signature = "None" THEN loop_
    ELSE [input_shapes |-> [k \in 1..st.num_shapes |->
                               add_shape(loop_.input_shapes[k], core_[k])],
          result_shape |-> add_shape(loop_.result_shape, core_[st.num_shapes + 1])]

NoDraws(n) ==
    [core |-> 0, bits |-> 0, side |-> 0,
     choice |-> [k \in 1..n |-> 0], coin |-> [k \in 1..n |-> 0]]

NoShapes == [input_shapes |-> << >>, result_shape |-> << >>]

-----------------------------------------------------------------------------
(* The calls the model makes                                                *)

MaxBaseLen == 1
MaxSide == 2
MaxDims == 1

BaseShapes == UNION {[1..n -> 0..MaxSide] : n \in 0..MaxBaseLen}

Call(api, num_shapes, signature, shape, min_dims, max_dims, min_side, max_side) ==
    [api |-> api, num_shapes |-> num_shapes, signature |-> signature, shape |-> shape,
     min_dims |-> min_dims, max_dims |-> max_dims,
     min_side |-> min_side, max_side |-> max_side]

\* broadcastable_shapes(shape, ...) and mutually_broadcastable_shapes(num_shapes=1, ...)
\* against every base shape within the bounds
PlainCalls ==
    {Call(f[1], f[2], "not_set", shape, min_dims, max_dims, min_side, max_side) :
        f \in {<<"broadcastable_shapes", not_set>>, <<"mutually_broadcastable_shapes", 1>>},
        shape \in BaseShapes,
        min_dims \in 0..MaxDims, max_dims \in {None} \cup 0..MaxDims,
        min_side \in 0..MaxSide, max_side \in {None} \cup 0..MaxSide}

\* mutually_broadcastable_shapes(num_shapes=2, ...): two shapes that share a
\* result_shape, against no base axis, a singleton, sides in and out of range
TwoShapeCalls ==
    {Call("mutually_broadcastable_shapes", 2, "not_set", shape, min_dims, max_dims,
          min_side, max_side) :
        shape \in {<< >>, <<1>>, <<2>>, <<0>>, <<3, 1>>},
        min_dims \in 0..MaxDims, max_dims \in {None} \cup 0..MaxDims,
        min_side \in {0, 1, 2}, max_side \in {None, 1, 2}}

\* The calls the source and its specification write out: the docstring
\* examples against (2, 3), and base shape (5,) with min_side=10, max_dims=1
DocumentedCalls ==
    {Call("broadcastable_shapes", not_set, "not_set", <<2, 3>>, 0, None, 1, None),
     Call("mutually_broadcastable_shapes", 2, "not_set", <<2, 3>>, 0, None, 1, None)}
    \cup {Call(api, n, "not_set", <<5>>, 0, 1, 10, max_side) :
            api \in {"broadcastable_shapes", "mutually_broadcastable_shapes"},
            n \in {1}, max_side \in {None, 12}}

\* Calls against a base shape with an unsatisfiable axis behind a satisfiable
\* one (side 0 is below min_side, side 3 may be above max_side)
LongBaseCalls ==
    {Call(f[1], f[2], "not_set", <<3, 0, 2>>, min_dims, max_dims, min_side, max_side) :
        f \in {<<"broadcastable_shapes", not_set>>, <<"mutually_broadcastable_shapes", 1>>,
               <<"mutually_broadcastable_shapes", 2>>},
        min_dims \in {0, 1}, max_dims \in {None, 2, 3},
        min_side \in {1, 2}, max_side \in {None, 2}}

\* Every way of passing num_shapes and signature: both, neither, either one,
\* and num_shapes < 1
ArgumentCalls ==
    {Call("mutually_broadcastable_shapes", n, sig, << >>, 0, None, 1, None) :
        n \in {not_set, 0, 1}, sig \in {"not_set", "(i),(i)->()"}}

Signatures ==
    {"(i),(i)->()", "(m?,n),(n,p?)->(m?,p?)", "(3),(3)->(3)", "(m?),(n)->(m?,n)",
     "(a,b),(b)->(a)"}

\* mutually_broadcastable_shapes(signature=..., ...), the sides within
\* [min_side, min_side + 1]
SignatureCalls ==
    {Call("mutually_broadcastable_shapes", not_set, sig, shape, min_dims, max_dims,
          min_side, Min(min_side + 1, MaxSide)) :
        sig \in Signatures, shape \in {<< >>, <<2>>, <<3, 1>>},
        min_dims \in {0, 1}, max_dims \in {None, 1},
        min_side \in 1..MaxSide}

\* Signature calls whose shapes reach the NDIM_MAX cap of add_shape
DeepCalls ==
    {Call("mutually_broadcastable_shapes", not_set, "(m?,n),(n,p?)->(m?,p?)",
          [i \in 1..NDIM_MAX |-> 1], 0, 0, 1, 1),
     Call("mutually_broadcastable_shapes", not_set, "(m?),(n)->(m?,n)",
          << >>, 0, NDIM_MAX - 1, 2, 2),
     Call("mutually_broadcastable_shapes", not_set, "(a,b),(b)->(a)",
          << >>, NDIM_MAX - 1, NDIM_MAX - 1, 2, 2)}

\* Signature calls at the limit on max_dims, NDIM_MAX minus the smallest number
\* of core dimensions of the signature: at it, one above it, above NDIM_MAX,
\* and a base shape with more than NDIM_MAX axes
LimitCalls ==
    {Call("mutually_broadcastable_shapes", not_set, f[1], << >>, f[2], f[3], 2, 2) :
        f \in {<<"(i),(i)->()", NDIM_MAX, NDIM_MAX>>,
                <<"(i),(i)->()", NDIM_MAX, NDIM_MAX + 1>>,
                <<"(a,b),(b)->(a)", NDIM_MAX - 1, NDIM_MAX>>,
                <<"(a,b),(b)->(a)", NDIM_MAX, NDIM_MAX>>,
                <<"(m?,n),(n,p?)->(m?,p?)", 0, NDIM_MAX - 1>>,
                <<"(m?),(n)->(m?,n)", NDIM_MAX + 1, None>>}}
    \cup {Call("mutually_broadcastable_shapes", not_set, "(i),(i)->()",
                [i \in 1..(NDIM_MAX + 1) |-> 1], 0, max_dims, 1, 1) : max_dims \in {0, None}}

Calls == PlainCalls \cup TwoShapeCalls \cup DocumentedCalls \cup LongBaseCalls \cup ArgumentCalls

GufuncCalls == SignatureCalls \cup DeepCalls \cup LimitCalls \cup ArgumentCalls

-----------------------------------------------------------------------------
(* The state machine                                                        *)

\* no other draw from the strategy is made or was made
Unrepeated == [run |-> 0, trace |-> << >>, ret |-> << >>]

\* cu.many has not been called
NoMany == [min_size |-> 0, max_size |-> 0, count |-> 0, rejections |-> 0]

\* a second draw from the strategy will follow this one
FirstOfTwo == [run |-> 1, trace |-> << >>, ret |-> << >>]

StartRun(calls, first_) ==
    /\ pc = "call"
    /\ args \in calls
    /\ strat = NoStrategy
    /\ error = ""
    /\ dims = << >>
    /\ core = << >>
    /\ tok = 0
    /\ use = << >>
    /\ shapes = << >>
    /\ result_shape = << >>
    /\ dim_count = 0
    /\ dim_side = 0
    /\ shape_id = 0
    /\ ndraws = NoDraws(0)
    /\ loop = NoShapes
    /\ ret = NoShapes
    /\ trace = << >>
    /\ first = first_
    /\ result = << >>
    /\ result_dims = 0
    /\ seen = {}
    /\ i_ = 0
    /\ index_set = {}
    /\ elements = NoMany
    /\ fill_val = None
    /\ element_draws = 0
    /\ warnings = {}

Start(calls) == StartRun(calls, Unrepeated)

coreVars == <<dims, core, tok>>
loopVars == <<use, shapes, result_shape, dim_count, dim_side, shape_id>>
shapeVars == <<strat, coreVars, loopVars, ndraws, loop>>
indexVars == <<result, result_dims>>
apiVars == <<seen, i_, index_set, elements, fill_val, element_draws, warnings>>
otherVars == <<indexVars, apiVars>>

\* The data a draw reads: a draw that is repeated (first.run = 2) is handed, at
\* each primitive draw, the result the first one (first.run = 1) got at the same
\* place for the same kind of draw; any other draw gets a fresh result.  The
\* trace is kept only when the draw is to be repeated.
Fed(place, kind, value) ==
    (/\ first.run = 2
     /\ Len(trace) + place <= Len(first.trace)
     /\ first.trace[Len(trace) + place][1] = kind)
        => value = first.trace[Len(trace) + place][2]

Record(entries) ==
    trace' = IF first.run = 0 THEN trace ELSE trace \o entries

\* the first lines of _draw_loop_dimensions
EnterLoop(use_) ==
    /\ use' = use_
    /\ shapes' = [k \in 1..strat.num_shapes |-> << >>]
    /\ result_shape' = Reversed(strat.base_shape)
    /\ dim_count' = 1
    /\ dim_side' = 0
    /\ shape_id' = 0

\* broadcastable_shapes(...) or mutually_broadcastable_shapes(...) is called
Construct ==
    /\ pc = "call"
    /\ LET r == Constructor(args)
       IN  /\ error' = r.error
           /\ strat' = r.strat
           /\ pc' = IF r.error = "" THEN "ready" ELSE "raised"
    /\ UNCHANGED <<args, coreVars, loopVars, ndraws, loop, ret, trace, first, otherVars>>

\* the names bound by an earlier draw from the strategy are kept
do_draw_KeepsDims ==
    /\ pc = "ready"
    /\ ndraws' = NoDraws(strat.num_shapes)
    /\ IF strat.signature = "None"
       THEN /\ EnterLoop([k \in 1..strat.num_shapes |-> TRUE])
            /\ pc' = "loop"
            /\ UNCHANGED coreVars
       ELSE /\ core' = [k \in 1..(strat.num_shapes + 1) |-> << >>]
            /\ dims' = dims
            /\ tok' = 0
            /\ pc' = "core"
            /\ UNCHANGED loopVars
    /\ UNCHANGED <<args, strat, error, loop, ret, trace, first, otherVars>>

\* do_draw is entered: without a signature the loop dimensions are drawn at
\* once, with one the core dimensions come first
do_draw ==
    /\ pc = "ready"
    /\ ndraws' = NoDraws(strat.num_shapes)
    /\ IF strat.signature = "None"
       THEN /\ EnterLoop([k \in 1..strat.num_shapes |-> TRUE])
            /\ pc' = "loop"
            /\ UNCHANGED coreVars
       ELSE /\ core' = [k \in 1..(strat.num_shapes + 1) |-> << >>]
            /\ dims' = << >>
            /\ tok' = 0
            /\ pc' = "core"
            /\ UNCHANGED loopVars
    /\ UNCHANGED <<args, strat, error, loop, ret, trace, first, otherVars>>

\* one pass of "for name in shape" of _draw_core_dimensions
_draw_core_dimensions ==
    /\ pc = "core"
    /\ tok < Len(WalkOf(strat.signature))
    /\ LET t    == WalkOf(strat.signature)[tok + 1]
           name == t.name
       IN  IF isdigit(name)
           THEN /\ core' = [core EXCEPT ![t.shape] = Append(@, int(name))]
                /\ UNCHANGED <<dims, ndraws, trace>>
           ELSE IF name \in DOMAIN dims
           THEN /\ core' = [core EXCEPT ![t.shape] = Append(@, dims[name])]
                /\ UNCHANGED <<dims, ndraws, trace>>
           ELSE \E drawn \in SideStrat(strat) :
                \E bits \in 0..7 :
                    LET bound == BindName(dims, name, drawn, Omitted(strat.min_dims, bits))
                    IN  /\ Fed(1, "side", drawn)
                        /\ strat.min_dims = 0 => Fed(2, "bits", bits)
                        /\ dims' = bound
                        /\ core' = [core EXCEPT ![t.shape] = Append(@, bound[name])]
                        /\ ndraws' = [ndraws EXCEPT
                                        !.core = @ + 1,
                                        !.bits = @ + (IF strat.min_dims = 0 THEN 1 ELSE 0)]
                        /\ Record(<< <<"side", drawn>> >>
                                  \o (IF strat.min_dims = 0 THEN << <<"bits", bits>> >>
                                      ELSE << >>))
    /\ tok' = tok + 1
    /\ UNCHANGED <<pc, args, strat, error, loopVars, loop, ret, first, otherVars>>

\* _draw_core_dimensions has returned; do_draw computes use and enters
\* _draw_loop_dimensions
EnterLoopWithUse ==
    /\ pc = "core"
    /\ tok = Len(WalkOf(strat.signature))
    /\ EnterLoop(UseOf(SubSeq(core, 1, strat.num_shapes)))
    /\ pc' = "loop"
    /\ UNCHANGED <<args, strat, error, coreVars, ndraws, loop, ret, trace, first, otherVars>>

\* the head of an iteration of "for dim_count in range(1, max_dims + 1)":
\* dim_side is chosen
NextDimension ==
    /\ pc = "loop"
    /\ dim_count <= strat.max_dims
    /\ LET forced == BaseDimSide(Reversed(strat.base_shape), dim_count, strat.max_side)
       IN  IF forced = None
           THEN /\ \E drawn \in SideStrat(strat) :
                        /\ Fed(1, "side", drawn)
                        /\ dim_side' = drawn
                        /\ Record(<< <<"side", drawn>> >>)
                /\ ndraws' = [ndraws EXCEPT !.side = @ + 1]
           ELSE /\ dim_side' = forced
                /\ UNCHANGED <<ndraws, trace>>
    /\ shape_id' = 1
    /\ pc' = "shape"
    /\ UNCHANGED <<args, strat, error, coreVars, use, shapes, result_shape, dim_count,
                   loop, ret, first, otherVars>>

\* one pass of "for shape_id, shape in enumerate(shapes)"
NextShape ==
    /\ pc = "shape"
    /\ shape_id <= strat.num_shapes
    /\ LET base_rev == Reversed(strat.base_shape)
           aligned  == Aligned(base_rev, dim_count, strat.size_one_allowed)
           flipped  == CoinDrawn(strat.min_dims, dim_count)
       IN  \E side \in SideChoices(base_rev, dim_count, strat.size_one_allowed, dim_side) :
           \E coin \in (IF flipped THEN BOOLEAN ELSE {TRUE}) :
               LET used  == use[shape_id] /\ coin
                   shape == Append(shapes[shape_id], side)
                   flip  == IF coin THEN 1 ELSE 0
               IN  /\ aligned => Fed(1, "sampled_from", side)
                   /\ flipped => Fed(IF aligned THEN 2 ELSE 1, "biased_coin", flip)
                   /\ Record((IF aligned THEN << <<"sampled_from", side>> >> ELSE << >>)
                             \o (IF flipped THEN << <<"biased_coin", flip>> >> ELSE << >>))
                   /\ use' = [use EXCEPT ![shape_id] = used]
                   /\ IF used
                      THEN /\ shapes' = [shapes EXCEPT ![shape_id] = shape]
                           /\ result_shape' = UpdateResult(result_shape, shape, dim_count)
                      ELSE UNCHANGED <<shapes, result_shape>>
                   /\ ndraws' = [ndraws EXCEPT
                                   !.choice[shape_id] = @ + (IF aligned THEN 1 ELSE 0),
                                   !.coin[shape_id] = @ + (IF flipped THEN 1 ELSE 0)]
    /\ shape_id' = shape_id + 1
    /\ pc' = IF shape_id = strat.num_shapes THEN "end" ELSE "shape"
    /\ UNCHANGED <<args, strat, error, coreVars, dim_count, dim_side, loop, ret, first,
                   otherVars>>

\* the end of an iteration: "if not any(use): break"
EndDimension ==
    /\ pc = "end"
    /\ IF ~ AnyUse(use)
       THEN pc' = "return" /\ UNCHANGED dim_count
       ELSE pc' = "loop" /\ dim_count' = dim_count + 1
    /\ UNCHANGED <<args, strat, error, coreVars, use, shapes, result_shape, dim_side,
                   shape_id, ndraws, loop, ret, trace, first, otherVars>>

\* the loop is over: _draw_loop_dimensions checks its assertions and returns,
\* do_draw adds the core dimensions, broadcastable_shapes maps to input_shapes[0]
Return ==
    /\ \/ pc = "return"
       \/ pc = "loop" /\ dim_count > strat.max_dims
    /\ IF LoopAssertions(strat, shapes)
       THEN LET loop_ == LoopResult(strat, shapes, result_shape)
                drawn == DrawResult(strat, loop_, core)
            IN  /\ loop' = loop_
                /\ ret' = IF args.api = "broadcastable_shapes"
                          THEN drawn.input_shapes[1] ELSE drawn
                /\ pc' = "done"
       ELSE /\ pc' = "failed"
            /\ UNCHANGED <<loop, ret>>
    /\ UNCHANGED <<args, strat, error, coreVars, loopVars, ndraws, trace, first, otherVars>>

Next ==
    \/ Construct
    \/ do_draw
    \/ _draw_core_dimensions
    \/ EnterLoopWithUse
    \/ NextDimension
    \/ NextShape
    \/ EndDimension
    \/ Return

\* calls without a signature (and the invalid ones)
Init == Start(Calls)
Spec == Init /\ [][Next]_vars

\* calls with a gufunc signature
InitGufunc == Start(GufuncCalls)
GufuncSpec == InitGufunc /\ [][Next]_vars

\* the largest number of loop dimensions and the largest side of the strategies
\* that are drawn from twice
ReplayDims == 1
ReplaySide == 2

\* the strategies that are drawn from twice
ReplayCalls ==
    {Call(f[1], f[2], "not_set", shape, min_dims, ReplayDims + 1, 1, ReplaySide) :
        f \in {<<"broadcastable_shapes", not_set>>, <<"mutually_broadcastable_shapes", 2>>},
        shape \in {<< >>, <<2>>}, min_dims \in {0, ReplayDims}}
    \cup {Call("mutually_broadcastable_shapes", not_set, signature, shape, 0,
               ReplayDims, 1, ReplaySide) :
            signature \in {"(i),(i)->()", "(m?),(n)->(m?,n)"},
            shape \in {<< >>, <<2>>}}

\* the draw has returned and do_draw is called again on the same strategy, with
\* data that repeats what the first draw was given
Redraw ==
    /\ pc = "done"
    /\ first.run = 1
    /\ first' = [run |-> 2, trace |-> trace, ret |-> ret]
    /\ trace' = << >>
    /\ pc' = "ready"
    /\ UNCHANGED <<args, error, shapeVars, ret, otherVars>>

InitReplay == StartRun(ReplayCalls, FirstOfTwo)
NextReplay == Next \/ Redraw
ReplaySpec == InitReplay /\ [][NextReplay]_vars

-----------------------------------------------------------------------------
(* Calls of _hypothesis_parse_gufunc_signature                              *)

MaxTokens == 1

\* "sep".join(parts)
RECURSIVE Join(_, _)
Join(parts, sep) ==
    IF Len(parts) = 0 THEN << >>
    ELSE IF Len(parts) = 1 THEN parts[1]
    ELSE parts[1] \o sep \o Join(Tail(parts), sep)

\* the text of a signature with the given shapes: "(m?,n),(n,p?)->(m?,p?)"
WriteShapes(shps) ==
    Join([k \in 1..Len(shps) |-> <<"(">> \o Join(shps[k], <<",">>) \o <<")">>], <<",">>)

WriteSignature(inputs, outputs) ==
    WriteShapes(inputs) \o <<"-", ">">> \o WriteShapes(outputs)

\* a name, an optional name, a frozen dimension, a frozen optional one
SomeTokens == {<<"n">>, <<"m">>, <<"m", "?">>, <<"3">>, <<"3", "?">>}

SomeShapes == UNION {[1..l -> SomeTokens] : l \in 0..MaxTokens}

\* one or two inputs and one output, every shape within MaxTokens
GeneratedSignatures ==
    {WriteSignature(ins, <<out>>) :
        ins \in UNION {[1..l -> SomeShapes] : l \in 1..2}, out \in SomeShapes}

\* the examples of the source, and the signatures the shape strategies are
\* called with
DocumentedSignatures ==
    {WriteSignature(_GUfuncSig(s).input_shapes, <<_GUfuncSig(s).result_shape>>) :
        s \in Signatures}
    \cup {WriteSignature(<< << >>, << >> >>, << << >> >>),
          WriteSignature(<< <<<<"i">>>> >>, << << >> >>),
          WriteSignature(<< <<<<"m">>, <<"n">>>>, <<<<"n">>, <<"p">>>> >>,
                         << <<<<"m">>, <<"p">>>> >>),
          WriteSignature(<< <<<<"n">>>>, <<<<"n">>, <<"p">>>> >>, << <<<<"p">>>> >>),
          WriteSignature(<< <<<<"m">>, <<"n">>>>, <<<<"n">>>> >>, << <<<<"m">>>> >>),
          WriteSignature(<< <<<<"m">>, <<"n">>>> >>, << <<<<"n">>, <<"m">>>> >>),
          WriteSignature(<< <<<<"n">>, <<"m", "?">>>> >>, << <<<<"m">>, <<"p">>>> >>)}
    \cup {WriteSignature(<<<<in>>>>, <<<<out>>>>) :
            in, out \in {<<"n">>, <<"1", "_", "0">>, <<"1", "_", "0", "?">>, <<"_", "1">>,
                         <<"1", "_">>, <<"0", "3">>, <<"n", "3">>}}

\* a shape of n dimensions of the same name
Repeated(name, n) == [i \in 1..n |-> name]

\* shapes at and over the limit of NDIM_MAX dimensions
LongSignatures ==
    {WriteSignature(<<Repeated(t, n)>>, outs) :
        t \in {<<"a">>, <<"a", "?">>}, n \in {NDIM_MAX, NDIM_MAX + 1},
        outs \in {<< << >> >>, << <<<<"a">>>> >>, << << >>, << >> >>}}
    \cup {WriteSignature(<< <<<<"a">>>> >>, <<Repeated(<<"a">>, n)>>) :
            n \in {NDIM_MAX, NDIM_MAX + 1}}

\* several outputs
MultipleOutputSignatures ==
    {WriteSignature(<<in>>, <<out1, out2>>) : in \in SomeShapes, out1 \in SomeShapes,
                                              out2 \in {<< >>, <<<<"n">>>>}}
    \cup {WriteSignature(<< <<<<"n">>>> >>, << <<<<"n">>>>, << >>, <<<<"n">>>> >>)}

\* texts that are no signature, and one that ends with a newline
OtherTexts ==
    {<< >>,
     <<"(", "n", ")">>,
     <<"(", "n", ")", "-", ">">>,
     <<"-", ">", "(", ")">>,
     <<"n", "-", ">", "(", ")">>,
     <<"(", "n", ")", "-", "(", ")">>,
     <<"(", "n", ")", "-", ">", "(", ")", ")">>,
     <<"(", "n", ")", "-", ">", "(", ")", ",">>,
     <<"(", "n", ",", ")", "-", ">", "(", ")">>,
     <<"(", ",", "n", ")", "-", ">", "(", ")">>,
     <<"(", "?", ")", "-", ">", "(", ")">>,
     <<"(", "n", "?", "?", ")", "-", ">", "(", ")">>,
     <<"(", "?", "n", ")", "-", ">", "(", ")">>,
     <<"(", "n", " ", ")", "-", ">", "(", ")">>,
     <<"(", "n", ")", " ", "-", ">", "(", ")">>,
     <<"(", "n", ")", "(", "n", ")", "-", ">", "(", ")">>,
     <<"(", "n", ")", ",", "-", ">", "(", ")">>,
     <<"(", "n", ")", "-", ">", "(", "n", ")", "\n">>,
     <<"(", "n", ")", "-", ">", "(", "p", ")", "\n">>,
     <<"(", "n", ")", "-", ">", "(", ")", ",", "(", ")", "\n">>,
     <<"(", "n", ")", "-", ">", "(", ")", "\n", "\n">>,
     <<"\n", "(", "n", ")", "-", ">", "(", ")">>}

ParserCalls ==
    {[api |-> "_hypothesis_parse_gufunc_signature", signature |-> s, all_checks |-> c] :
        s \in GeneratedSignatures \cup DocumentedSignatures \cup LongSignatures
              \cup MultipleOutputSignatures \cup OtherTexts,
        c \in BOOLEAN}

\* _hypothesis_parse_gufunc_signature(signature, all_checks) is called
ParseSignature ==
    /\ pc = "call"
    /\ LET r == _hypothesis_parse_gufunc_signature(args.signature, args.all_checks)
       IN  /\ error' = r.error
           /\ ret' = r.sig
           /\ pc' = IF r.error = "" THEN "done" ELSE "raised"
    /\ UNCHANGED <<args, shapeVars, trace, first, otherVars>>

InitParser == Start(ParserCalls)
NextParser == ParseSignature
ParserSpec == InitParser /\ [][NextParser]_vars

-----------------------------------------------------------------------------
(* Calls of order_check and of check_valid_dims                             *)

ValidatorCalls ==
    {[api |-> "order_check", floor |-> floor, min_ |-> lo, max_ |-> hi] :
        floor \in 0..1, lo \in -1..(MaxSide + 1), hi \in -1..(MaxSide + 1)}
    \cup {[api |-> "check_valid_dims", dims |-> n] : n \in 0..(NDIM_MAX + MaxDims + 1)}

\* order_check(name, floor, min_, max_) is called
OrderCheck ==
    /\ pc = "call"
    /\ args.api = "order_check"
    /\ error' = OrderCheckMessage(args.floor, args.min_, args.max_)
    /\ pc' = IF order_check(args.floor, args.min_, args.max_) THEN "raised" ELSE "done"
    /\ UNCHANGED <<args, shapeVars, ret, trace, first, otherVars>>

\* check_valid_dims(dims, name) is called
CheckValidDims ==
    /\ pc = "call"
    /\ args.api = "check_valid_dims"
    /\ error' = IF check_valid_dims(args.dims) THEN "more than NDIM_MAX dimensions" ELSE ""
    /\ pc' = IF check_valid_dims(args.dims) THEN "raised" ELSE "done"
    /\ UNCHANGED <<args, shapeVars, ret, trace, first, otherVars>>

InitValidator == Start(ValidatorCalls)
NextValidator == OrderCheck \/ CheckValidDims
ValidatorSpec == InitValidator /\ [][NextValidator]_vars

-----------------------------------------------------------------------------
(* basic_indices and BasicIndexStrategy                                     *)
(* A component of an index is a record: an integer, a slice, None (a new    *)
(* axis) or Ellipsis.                                                       *)

Integer(v) == [kind |-> "int", start |-> v, stop |-> None, step |-> None]
Slice(start, stop, step) == [kind |-> "slice", start |-> start, stop |-> stop, step |-> step]
NewAxis == [kind |-> "None", start |-> None, stop |-> None, step |-> None]
Ellipsis == [kind |-> "Ellipsis", start |-> None, stop |-> None, step |-> None]

\* slice(None)
FullSlice == Slice(None, None, None)

\* st.integers(-dim_size, dim_size) would allow an index one past the end
IntegerIndices_Inclusive(dim_size) == {Integer(v) : v \in (0 - dim_size)..dim_size}

\* st.integers(-dim_size, dim_size - 1)
IntegerIndices(dim_size) == {Integer(v) : v \in (0 - dim_size)..(dim_size - 1)}

\* st.slices(dim_size): the full slice and a few of the other slices it draws
Slices(dim_size) == {FullSlice, Slice(0, dim_size, None), Slice(None, None, 0 - 1)}

\* sum(isinstance(idx, slice) for idx in result)
CountSlices(result_) ==
    Cardinality({k \in 1..Len(result_) : result_[k].kind = "slice"})

NoIndexStrategy ==
    [shape |-> << >>, min_dims |-> 0, max_dims |-> 0,
     allow_ellipsis |-> FALSE, allow_newaxis |-> FALSE]

\* basic_indices(shape, allow_0d, allow_deprecated_dims, ...)
basic_indices(a) ==
    LET len      == Len(a.shape)
        max_dims == IF a.max_dims # None THEN a.max_dims
                    ELSE IF a.allow_newaxis
                    THEN Min(Max(len, a.min_dims) + 2, NDIM_MAX)
                    ELSE Min(len, NDIM_MAX)
        fail(why) == [error |-> why, strat |-> NoIndexStrategy]
    IN  IF ~ a.allow_0d /\ len = 0
        THEN fail("No valid indices for zero-dimensional arrays")
        ELSE IF \E k \in 1..len : a.shape[k] < 0
        THEN fail("all dimensions must be non-negative integers")
        ELSE IF ~ a.allow_newaxis /\ ~ (a.min_dims <= len)
        THEN fail("min_dims is larger than len(shape)")
        ELSE IF check_valid_dims(a.min_dims) THEN fail("min_dims > NDIM_MAX")
        ELSE IF /\ a.max_dims # None
                /\ ~ (a.allow_deprecated_dims /\ a.max_dims > len /\ ~ a.allow_newaxis)
                /\ ~ a.allow_deprecated_dims /\ ~ a.allow_newaxis
                /\ ~ (a.max_dims <= len)
        THEN fail("max_dims is larger than len(shape)")
        ELSE IF check_valid_dims(max_dims) THEN fail("max_dims > NDIM_MAX")
        ELSE IF order_check(0, a.min_dims, max_dims) THEN fail("order of dims")
        ELSE [error |-> "",
              strat |-> [shape |-> a.shape, min_dims |-> a.min_dims, max_dims |-> max_dims,
                         allow_ellipsis |-> a.allow_ellipsis,
                         allow_newaxis |-> a.allow_newaxis]]

\* result.insert(i, None) for 0 <= i <= len(result)
Insert(result_, i, x) ==
    SubSeq(result_, 1, i) \o <<x>> \o SubSeq(result_, i + 1, Len(result_))

\* "while i > 0 and result[i - 1] == slice(None): i -= 1"
RECURSIVE RunStart(_, _)
RunStart(result_, i) ==
    IF i > 0 /\ result_[i] = FullSlice THEN RunStart(result_, i - 1) ELSE i

\* "while j < len(result) and result[j] == slice(None): j += 1"
RECURSIVE RunEnd(_, _)
RunEnd(result_, j) ==
    IF j < Len(result_) /\ result_[j + 1] = FullSlice THEN RunEnd(result_, j + 1) ELSE j

\* the component before the run of full slices is replaced as well
WithEllipsis_OneMore(result_, at) ==
    SubSeq(result_, 1, Max(RunStart(result_, at) - 1, 0)) \o <<Ellipsis>>
        \o SubSeq(result_, RunEnd(result_, at) + 1, Len(result_))

\* result[i:j] = [Ellipsis] after the two loops have moved i and j apart
WithEllipsis(result_, at) ==
    SubSeq(result_, 1, RunStart(result_, at)) \o <<Ellipsis>>
        \o SubSeq(result_, RunEnd(result_, at) + 1, Len(result_))

\* the boolean is drawn, and obeyed, before min_dims is reached
Inserting_CoinFirst(st, result_dims_, drawn) ==
    st.allow_newaxis /\ result_dims_ < st.max_dims /\ drawn

\* the condition of the while loop that inserts new axes; drawn is what
\* data.draw(st.booleans()) gives when the condition gets as far as drawing it
Inserting(st, result_dims_, drawn) ==
    /\ st.allow_newaxis
    /\ result_dims_ < st.max_dims
    /\ (result_dims_ < st.min_dims \/ drawn)

\* only the upper bound is looked at
Assumed_UpperOnly(min_dims, max_dims, result_dims_) == result_dims_ <= max_dims

\* assume(self.min_dims <= result_dims <= self.max_dims)
Assumed(min_dims, max_dims, result_dims_) ==
    min_dims <= result_dims_ /\ result_dims_ <= max_dims

IndexCall(shape, allow_0d, allow_deprecated_dims, min_dims, max_dims, allow_newaxis, allow_ellipsis) ==
    [api |-> "basic_indices", shape |-> shape, allow_0d |-> allow_0d,
     allow_deprecated_dims |-> allow_deprecated_dims, min_dims |-> min_dims,
     max_dims |-> max_dims, allow_newaxis |-> allow_newaxis,
     allow_ellipsis |-> allow_ellipsis]

\* every shape within the bounds, and the shape (3, 4) without new axes and
\* without Ellipsis
IndexCalls ==
    {IndexCall(shape, allow_0d, deprecated, min_dims, max_dims, newaxis, ellipsis) :
        shape \in BaseShapes, allow_0d \in BOOLEAN, deprecated \in {FALSE},
        min_dims \in 0..(MaxDims + 1), max_dims \in {None} \cup 0..(MaxDims + 1),
        newaxis \in BOOLEAN, ellipsis \in BOOLEAN}
    \cup {IndexCall(<<3, 4>>, TRUE, deprecated, min_dims, max_dims, FALSE, FALSE) :
            deprecated \in BOOLEAN, min_dims \in 0..2, max_dims \in {None, 1, 2, 3}}
    \cup {IndexCall(<<3, 4>>, TRUE, FALSE, 1, 2, TRUE, TRUE),
          IndexCall(<<0, 2>>, TRUE, FALSE, 0, None, TRUE, TRUE),
          IndexCall(<<2>>, TRUE, FALSE, NDIM_MAX, NDIM_MAX + 1, TRUE, TRUE)}

\* basic_indices(...) is called
ConstructIndices ==
    /\ pc = "call"
    /\ LET r == basic_indices(args)
       IN  /\ error' = r.error
           /\ strat' = r.strat
           /\ pc' = IF r.error = "" THEN "ready" ELSE "raised"
    /\ UNCHANGED <<args, coreVars, loopVars, ndraws, loop, ret, trace, first, otherVars>>

\* BasicIndexStrategy.do_draw is entered
DrawIndex ==
    /\ pc = "ready"
    /\ result' = << >>
    /\ result_dims' = 0
    /\ pc' = "axis"
    /\ UNCHANGED <<args, error, shapeVars, ret, trace, first, apiVars>>

\* one pass of "for dim_size in self.shape"
DrawAxis ==
    /\ pc = "axis"
    /\ Len(result) < Len(strat.shape)
    /\ LET dim_size == strat.shape[Len(result) + 1]
       IN  IF dim_size = 0
           THEN result' = Append(result, FullSlice)
           ELSE \E idx \in IntegerIndices(dim_size) \cup Slices(dim_size) :
                    result' = Append(result, idx)
    /\ UNCHANGED <<pc, args, error, shapeVars, ret, trace, first, apiVars, result_dims>>

\* the loop is over: result_dims is counted
CountDims ==
    /\ pc = "axis"
    /\ Len(result) = Len(strat.shape)
    /\ result_dims' = CountSlices(result)
    /\ pc' = "newaxis"
    /\ UNCHANGED <<args, error, shapeVars, ret, trace, first, apiVars, result>>

\* one pass of the loop that inserts new axes: the boolean is drawn only when
\* result_dims has reached min_dims
InsertNewaxis ==
    /\ pc = "newaxis"
    /\ \E drawn \in BOOLEAN : Inserting(strat, result_dims, drawn)
    /\ \E i \in 0..Len(result) : result' = Insert(result, i, NewAxis)
    /\ result_dims' = result_dims + 1
    /\ UNCHANGED <<pc, args, error, shapeVars, ret, trace, first, apiVars>>

\* the loop ends (new axes not allowed, max_dims reached, or the boolean drawn
\* is False) and the number of dimensions is checked
Assume ==
    /\ pc = "newaxis"
    /\ \E drawn \in BOOLEAN : ~ Inserting(strat, result_dims, drawn)
    /\ pc' = IF Assumed(strat.min_dims, strat.max_dims, result_dims)
             THEN "shorten" ELSE "rejected"
    /\ UNCHANGED <<args, error, shapeVars, ret, trace, first, apiVars, indexVars>>

\* "if self.allow_ellipsis and data.draw(st.booleans())"
InsertEllipsis ==
    /\ pc = "shorten"
    /\ strat.allow_ellipsis
    /\ \E at \in 0..Len(result) : result' = WithEllipsis(result, at)
    /\ pc' = "collapse"
    /\ UNCHANGED <<args, error, shapeVars, ret, trace, first, apiVars, result_dims>>

\* the else branch is taken
NoEllipsis ==
    /\ pc = "shorten"
    /\ pc' = "trim"
    /\ UNCHANGED <<args, error, shapeVars, ret, trace, first, apiVars, indexVars>>

\* one pass of "while result[-1:] == [slice(None, None)] and data.draw(st.integers(0, 7))"
TrimSlice ==
    /\ pc = "trim"
    /\ Len(result) > 0 /\ result[Len(result)] = FullSlice
    /\ \E drawn \in 0..7 :
          IF drawn # 0
          THEN result' = SubSeq(result, 1, Len(result) - 1) /\ pc' = "trim"
          ELSE result' = result /\ pc' = "collapse"
    /\ UNCHANGED <<args, error, shapeVars, ret, trace, first, apiVars, result_dims>>

\* the last component is no full slice (or there is none): the loop ends
\* without a draw
EndTrim ==
    /\ pc = "trim"
    /\ ~ (Len(result) > 0 /\ result[Len(result)] = FullSlice)
    /\ pc' = "collapse"
    /\ UNCHANGED <<args, error, shapeVars, ret, trace, first, apiVars, indexVars>>

\* "if len(result) == 1 and data.draw(st.booleans()): return result[0]"
ReturnIndex ==
    /\ pc = "collapse"
    /\ \E bare \in (IF Len(result) = 1 THEN BOOLEAN ELSE {FALSE}) :
          ret' = [bare |-> bare, items |-> result]
    /\ pc' = "done"
    /\ UNCHANGED <<args, error, shapeVars, trace, first, apiVars, indexVars>>

InitIndex == Start(IndexCalls)

NextIndex ==
    \/ ConstructIndices
    \/ DrawIndex
    \/ DrawAxis
    \/ CountDims
    \/ InsertNewaxis
    \/ Assume
    \/ InsertEllipsis
    \/ NoEllipsis
    \/ TrimSlice
    \/ EndTrim
    \/ ReturnIndex

IndexSpec == InitIndex /\ [][NextIndex]_vars

-----------------------------------------------------------------------------
(* valid_tuple_axes                                                         *)

\* check_valid_interval(lower_bound, upper_bound, ...) raises (TRUE) when the
\* upper bound is below the lower one
check_valid_interval(lower_bound, upper_bound) == upper_bound < lower_bound

NoAxesStrategy == [ndim |-> 0, min_size |-> 0, max_size |-> 0]

\* valid_tuple_axes(ndim, min_size, max_size) up to the strategy it returns
valid_tuple_axes(a) ==
    LET max_size == IF a.max_size = None THEN a.ndim ELSE a.max_size
    IN  IF order_check(0, a.min_size, max_size)
        THEN [error |-> "order of size", strat |-> NoAxesStrategy]
        ELSE IF check_valid_interval(max_size, a.ndim)
        THEN [error |-> "max_size > ndim", strat |-> NoAxesStrategy]
        ELSE [error |-> "",
              strat |-> [ndim |-> a.ndim, min_size |-> a.min_size, max_size |-> max_size]]

\* st.integers(0, max(0, 2 * ndim - 1))
AxisDraws(ndim) == 0..Max(0, 2 * ndim - 1)

\* lambda x: x if x < ndim else x - 2 * ndim
AxisValue(x, ndim) == IF x < ndim THEN x ELSE x - 2 * ndim

\* the entries themselves are the keys
AxisKey_Identity(x, ndim) == x

\* unique_by=lambda x: x % ndim
AxisKey(x, ndim) == x % ndim

\* the keys of the elements already in the list
SeenKeys(result_, ndim) == {AxisKey(result_[k], ndim) : k \in 1..Len(result_)}

AxesCalls ==
    {[api |-> "valid_tuple_axes", ndim |-> ndim, min_size |-> min_size,
      max_size |-> max_size] :
        ndim \in -1..(MaxDims + 2), min_size \in -1..(MaxDims + 2),
        max_size \in {None} \cup 0..(MaxDims + 3)}

\* valid_tuple_axes(...) is called
ConstructAxes ==
    /\ pc = "call"
    /\ LET r == valid_tuple_axes(args)
       IN  /\ error' = r.error
           /\ strat' = r.strat
           /\ pc' = IF r.error = "" THEN "ready" ELSE "raised"
    /\ UNCHANGED <<args, coreVars, loopVars, ndraws, loop, ret, trace, first, otherVars>>

\* the draw from st.lists(axes, ...) begins with an empty list
DrawAxes ==
    /\ pc = "ready"
    /\ result' = << >>
    /\ pc' = "elements"
    /\ UNCHANGED <<args, error, shapeVars, ret, trace, first, apiVars, result_dims>>

\* the list takes one more element: an axis is drawn, and it is appended unless
\* its key is that of an element of the list
DrawElement ==
    /\ pc = "elements"
    /\ Len(result) < strat.max_size
    /\ \E x \in AxisDraws(strat.ndim) :
          LET axis == AxisValue(x, strat.ndim)
          IN  IF AxisKey(axis, strat.ndim) \in SeenKeys(result, strat.ndim)
              THEN result' = result
              ELSE result' = Append(result, axis)
    /\ UNCHANGED <<pc, args, error, shapeVars, ret, trace, first, apiVars, result_dims>>

\* the list has at least min_size elements and takes no more: .map(tuple)
ReturnAxes ==
    /\ pc = "elements"
    /\ Len(result) >= strat.min_size
    /\ ret' = result
    /\ pc' = "done"
    /\ UNCHANGED <<args, error, shapeVars, trace, first, otherVars>>

InitAxes == Start(AxesCalls)
NextAxes == ConstructAxes \/ DrawAxes \/ DrawElement \/ ReturnAxes
AxesSpec == InitAxes /\ [][NextAxes]_vars

-----------------------------------------------------------------------------
(* Properties                                                               *)

\* the side of shape s at position p counted from the trailing end (p >= 1)
TrailingSide(s, p) == s[Len(s) + 1 - p]

Drawn == pc = "done"
NumShapesMode == strat.signature = "None"

\* C1: without a signature, every side of every returned input shape is 1 or
\* equals the side of result_shape at the same position from the trailing end;
\* the shape broadcastable_shapes returns is that input shape and is
\* compatible with the base shape at every position both have.
C1_SidesMatchResult ==
    (Drawn /\ NumShapesMode) =>
        /\ \A k \in 1..Len(loop.input_shapes) :
             \A p \in 1..Len(loop.input_shapes[k]) :
                /\ p <= Len(loop.result_shape)
                /\ \/ TrailingSide(loop.input_shapes[k], p) = 1
                   \/ TrailingSide(loop.input_shapes[k], p) = TrailingSide(loop.result_shape, p)
        /\ args.api = "broadcastable_shapes" =>
             /\ ret = loop.input_shapes[1]
             /\ \A p \in 1..Min(Len(ret), Len(args.shape)) :
                  \/ TrailingSide(ret, p) = 1
                  \/ TrailingSide(args.shape, p) = 1
                  \/ TrailingSide(ret, p) = TrailingSide(args.shape, p)

\* two shapes were drawn, one with a singleton where the other has a larger side
C1_Witness ==
    /\ Drawn /\ NumShapesMode /\ Len(loop.input_shapes) = 2
    /\ \E p \in 1..Min(Len(loop.input_shapes[1]), Len(loop.input_shapes[2])) :
         /\ TrailingSide(loop.input_shapes[1], p) = 1
         /\ TrailingSide(loop.input_shapes[2], p) > 1
         /\ TrailingSide(loop.result_shape, p) > 1

\* base_shape together with the input shapes
Operands == <<strat.base_shape>> \o loop.input_shapes

\* the sides the operands have at position p from the trailing end
SidesAt(p) == {TrailingSide(Operands[k], p) : k \in {j \in 1..Len(Operands) : Len(Operands[j]) >= p}}

\* C2: without a signature, result_shape is the broadcast of base_shape and the
\* input shapes: as long as the longest of them, and at every position from the
\* trailing end the one side other than 1 found there, or 1 when there is none.
C2_ResultIsBroadcast ==
    (Drawn /\ NumShapesMode) =>
        /\ Len(loop.result_shape) = MaxOf([k \in 1..Len(Operands) |-> Len(Operands[k])])
        /\ \A p \in 1..Len(loop.result_shape) :
             /\ Cardinality(SidesAt(p) \ {1}) <= 1
             /\ IF SidesAt(p) \ {1} = {} THEN TrailingSide(loop.result_shape, p) = 1
                ELSE TrailingSide(loop.result_shape, p) \in SidesAt(p) \ {1}

\* a singleton of the base shape was overwritten by the side of an input shape,
\* and another axis of result_shape lies beyond the base shape
C2_Witness ==
    /\ Drawn /\ NumShapesMode
    /\ Len(loop.result_shape) > Len(strat.base_shape)
    /\ \E p \in 1..Len(strat.base_shape) :
         TrailingSide(strat.base_shape, p) = 1 /\ TrailingSide(loop.result_shape, p) > 1

Drawing == pc \in {"ready", "core", "loop", "shape", "end", "return"}

\* C3: without a signature, a draw of an accepted configuration never fails an
\* assertion; every input shape it returns has between min_dims and (the
\* strategy's) max_dims sides, each between min_side and max_side; a strategy
\* is only built with ordered bounds, so that every draw from side_strat and
\* every pass of the loop can be made.
C3_DrawWithinBounds ==
    NumShapesMode =>
        /\ pc # "failed"
        /\ Drawing => (strat.min_side <= strat.max_side /\ strat.min_dims <= strat.max_dims)
        /\ Drawn =>
             \A k \in 1..Len(loop.input_shapes) :
                /\ strat.min_dims <= Len(loop.input_shapes[k])
                /\ Len(loop.input_shapes[k]) <= strat.max_dims
                /\ \A j \in 1..Len(loop.input_shapes[k]) :
                     /\ strat.min_side <= loop.input_shapes[k][j]
                     /\ loop.input_shapes[k][j] <= strat.max_side

\* max_dims was reduced below the length of the base shape because of an
\* unsatisfiable axis, and a shape as long as the reduced max_dims was drawn
C3_Witness ==
    /\ Drawn /\ NumShapesMode
    /\ strat.max_dims >= 1
    /\ strat.max_dims < Len(strat.base_shape)
    /\ args.max_dims = None
    /\ \E k \in 1..Len(loop.input_shapes) : Len(loop.input_shapes[k]) = strat.max_dims

-----------------------------------------------------------------------------
(* Properties of the draw with a signature                                  *)

SignatureMode == strat.signature # "None"

\* s[-n:] for 0 <= n <= Len(s), the empty sequence when n = 0
Suffix(s, n) == SubSeq(s, Len(s) - n + 1, Len(s))

\* the dimension tokens of every shape of the signature, the result last
SigShapes == AllShapes(_GUfuncSig(strat.signature))

\* the returned shapes and the drawn loop dimensions, the result last
RetShapes == ret.input_shapes \o <<ret.result_shape>>
LoopShapes == loop.input_shapes \o <<loop.result_shape>>

\* the position, from the trailing end of the returned shape k, of its core
\* dimension j: one more than the number of core dimensions kept after it
AxisOf(k, j) == 1 + Cardinality({i \in (j + 1)..Len(core[k]) : core[k][i] # None})

\* the dimension tokens of a parsed signature
TokensOf(sig) == UNION {{sig[k][j] : j \in 1..Len(sig[k])} : k \in 1..Len(sig)}

\* the names of a parsed signature that are not numbers, without their "?"
NamesOf(sig) == {strip(t) : t \in {u \in TokensOf(sig) : ~ isdigit(u)}}

\* C4: with a signature, all occurrences of a dimension name that are not
\* omitted, with or without "?", in the input shapes and the result shape,
\* have the same size in the returned shapes, and the size of each name is
\* drawn once.
C4_SameNameSameSize ==
    (Drawn /\ SignatureMode) =>
        LET sig == SigShapes
            rets == RetShapes
        IN  /\ \A k1 \in 1..Len(sig) : \A k2 \in k1..Len(sig) :
               \A j1 \in 1..Len(sig[k1]), j2 \in 1..Len(sig[k2]) :
                  ( /\ core[k1][j1] # None /\ core[k2][j2] # None
                    /\ ~ isdigit(sig[k1][j1])
                    /\ strip(sig[k1][j1]) = strip(sig[k2][j2]) )
                  => /\ AxisOf(k1, j1) <= Len(rets[k1])
                     /\ AxisOf(k2, j2) <= Len(rets[k2])
                     /\ TrailingSide(rets[k1], AxisOf(k1, j1))
                          = TrailingSide(rets[k2], AxisOf(k2, j2))
            /\ ndraws.core = Cardinality(NamesOf(sig))

\* "(m?,n),(n,p?)->(m?,p?)" was drawn with both inputs given loop dimensions of
\* different lengths, m and p kept and n larger than 1
C4_Witness ==
    /\ Drawn /\ strat.signature = "(m?,n),(n,p?)->(m?,p?)"
    /\ core[1][1] # None /\ core[2][2] # None /\ core[1][2] > 1
    /\ Len(loop.input_shapes[1]) # Len(loop.input_shapes[2])
    /\ Len(loop.input_shapes[1]) >= 1 /\ Len(loop.input_shapes[2]) >= 1

Iterations == Min(dim_count, strat.max_dims)

\* C6: with a signature, an input shape with an omitted core dimension gets no
\* loop dimensions and is returned as its kept core dimensions; in every pass
\* of the loop its side choice and its coin are drawn as for any other shape.
C6_OmittedShapeGetsNoLoopDims ==
    (Drawn /\ SignatureMode) =>
        \A k \in 1..strat.num_shapes :
           (\E j \in 1..Len(core[k]) : core[k][j] = None) =>
              /\ loop.input_shapes[k] = << >>
              /\ ret.input_shapes[k] = SelectSeq(core[k], LAMBDA x : x # None)
              /\ strat.max_dims >= 1 => Iterations >= 1
              /\ ndraws.coin[k] = Iterations
              /\ ndraws.choice[k] = IF strat.min_side <= 1 /\ 1 <= strat.max_side
                                    THEN Min(Iterations, Len(strat.base_shape)) ELSE 0
              /\ \A i \in 1..strat.num_shapes :
                    ndraws.coin[i] = ndraws.coin[k] /\ ndraws.choice[i] = ndraws.choice[k]

\* the first input omitted its m, the second input got loop dimensions, and
\* the coin and the side choice of the first were drawn more than once
C6_Witness ==
    /\ Drawn /\ strat.signature = "(m?,n),(n,p?)->(m?,p?)"
    /\ core[1][1] = None
    /\ Len(loop.input_shapes[2]) >= 2
    /\ ndraws.coin[1] >= 2 /\ ndraws.choice[1] >= 1

\* C7: with a signature, every returned shape is its loop dimensions followed
\* by its core dimensions, the omitted ones dropped first, and of that the
\* trailing NDIM_MAX sides when it is longer.
C7_DropThenTruncate ==
    (Drawn /\ SignatureMode) =>
        \A k \in 1..Len(RetShapes) :
           LET kept == SelectSeq(LoopShapes[k] \o core[k], LAMBDA x : x # None)
           IN  RetShapes[k] = Suffix(kept, Min(Len(kept), NDIM_MAX))

-----------------------------------------------------------------------------
(* Properties of the constructors                                           *)

Constructed == pc # "call"

\* the call passes a valid count of shapes and no signature
PlainCall ==
    /\ args.signature = "not_set"
    /\ args.api = "mutually_broadcastable_shapes" => args.num_shapes >= 1

\* max_dims and max_side after the defaults are filled in
EffMaxDims ==
    IF args.max_dims = None THEN DefaultMaxDims(args.shape, args.min_dims, 0)
    ELSE args.max_dims
EffMaxSide ==
    IF args.max_side = None THEN DefaultMaxSide(args.shape, EffMaxDims, args.min_side)
    ELSE args.max_side

\* strict_check as the called constructor computes it
Strict ==
    IF args.api = "broadcastable_shapes"
    THEN StrictCheckBroadcastable(args.max_dims, args.max_side)
    ELSE StrictCheckMutually(args.max_dims, args.max_side)

\* the indices of the trailing n axes of the base shape
TrailingAxes(n) == {i \in 1..Len(args.shape) : i > Len(args.shape) - n}

\* C8: against base shape (5,) with min_side=10 and max_dims=1 the constructor
\* raises InvalidArgument; under strict checking it raises whenever one of the
\* trailing max_dims base sides is not 1 and below min_side, or 1 is not an
\* allowed side and one of those base sides is above max_side.
C8_StrictInfeasibleRaises ==
    (Constructed /\ PlainCall) =>
        /\ ( /\ args.shape = <<5>> /\ args.min_side = 10
             /\ args.max_dims = 1 /\ args.max_side = None )
           => (pc = "raised" /\ error = "unsatisfiable min_side")
        /\ ( /\ Strict
             /\ \E i \in TrailingAxes(EffMaxDims) :
                   args.shape[i] # 1 /\ args.shape[i] < args.min_side )
           => pc = "raised"
        /\ ( /\ Strict
             /\ ~ (args.min_side <= 1 /\ 1 <= EffMaxSide)
             /\ \E i \in TrailingAxes(EffMaxDims) : args.shape[i] > EffMaxSide )
           => pc = "raised"

\* broadcastable_shapes((5,), min_side=10, max_dims=1) raised
C8_Witness ==
    /\ pc = "raised" /\ error = "unsatisfiable min_side"
    /\ args.api = "broadcastable_shapes"
    /\ args.shape = <<5>> /\ args.min_side = 10 /\ args.max_dims = 1
    /\ args.max_side = None

\* the bounds of the call are well-formed: only the base shape can make it fail
OrderedBounds ==
    /\ args.min_dims <= EffMaxDims /\ EffMaxDims <= NDIM_MAX
    /\ args.min_side <= EffMaxSide

\* the axes (counted from the trailing end, from 0) among the trailing max_dims
\* axes of the base shape that no side of a broadcastable shape can align with
InfeasibleAxes ==
    {n \in 0..(Min(EffMaxDims, Len(args.shape)) - 1) :
        LET s == TrailingSide(args.shape, n + 1)
        IN  \/ s # 1 /\ s < args.min_side
            \/ ~ (args.min_side <= 1 /\ 1 <= EffMaxSide) /\ s > EffMaxSide}

FirstInfeasibleAxis == CHOOSE n \in InfeasibleAxes : \A m \in InfeasibleAxes : n <= m

\* C9: in both constructors, when max_dims and max_side were left unspecified
\* an infeasible base axis beyond the first min_dims trailing axes does not
\* raise but reduces max_dims to the index of the first infeasible axis; when
\* both were specified, an infeasible axis among the trailing max_dims axes
\* raises InvalidArgument.
C9_StrictIffExplicit ==
    (Constructed /\ PlainCall /\ OrderedBounds) =>
        /\ (args.max_dims = None /\ args.max_side = None) =>
              IF InfeasibleAxes = {}
              THEN pc # "raised" /\ strat.max_dims = EffMaxDims
              ELSE FirstInfeasibleAxis >= args.min_dims =>
                      (pc # "raised" /\ strat.max_dims = FirstInfeasibleAxis)
        /\ (args.max_dims # None /\ args.max_side # None) =>
              (InfeasibleAxes # {} => pc = "raised")

\* C10: mutually_broadcastable_shapes raises InvalidArgument when both
\* num_shapes and signature are passed, when neither is, and when num_shapes
\* is below 1; with a signature, as many input shapes are drawn as the
\* signature has input arguments.
C10_NumShapesXorSignature ==
    (Constructed /\ args.api = "mutually_broadcastable_shapes") =>
        /\ (args.num_shapes # not_set /\ args.signature # "not_set")
             => (pc = "raised" /\ error = "arg_msg")
        /\ (args.num_shapes = not_set /\ args.signature = "not_set")
             => (pc = "raised" /\ error = "arg_msg")
        /\ (args.num_shapes # not_set /\ args.signature = "not_set" /\ args.num_shapes < 1)
             => (pc = "raised" /\ error = "num_shapes must be at least 1")
        /\ (args.num_shapes = not_set /\ args.signature # "not_set" /\ pc # "raised")
             => /\ strat.num_shapes = Len(_GUfuncSig(args.signature).input_shapes)
                /\ Drawn => Len(ret.input_shapes) = Len(_GUfuncSig(args.signature).input_shapes)

\* both arguments were passed and the call raised
C10_Witness ==
    /\ pc = "raised" /\ error = "arg_msg"
    /\ args.num_shapes = 1 /\ args.signature = "(i),(i)->()"

-----------------------------------------------------------------------------
(* Properties of the signature parser                                       *)

Parsed == pc \in {"done", "raised"}

\* every dimension token of the given shapes
TokensIn(shps) ==
    {shps[k][i] : <<k, i>> \in {<<k, i>> \in (1..Len(shps)) \X (1..NDIM_MAX) :
                                   i <= Len(shps[k])}}

\* a token is numeric when what is left of it without "?" reads as an integer
Numeric(token) == IntAccepts(strip(token))

OutputOnlyName(sig) ==
    \E t \in TokensIn(<<sig.result_shape>>) :
        /\ ~ Numeric(t)
        /\ \A u \in TokensIn(sig.input_shapes) : strip(u) # strip(t)

FrozenOptional(sig) ==
    \E t \in TokensIn(AllShapes(sig)) : Numeric(t) /\ HasMark(t)

\* the text without the newline that may end it
Chomp(s) == IF Len(s) > 0 /\ s[Len(s)] = "\n" THEN SubSeq(s, 1, Len(s) - 1) ELSE s

\* C11: for a signature of the single-output grammar, parsing with checks
\* raises InvalidArgument exactly when a non-numeric name of the output (without
\* its "?") is in no input shape or a numeric token has the "?" suffix; otherwise
\* the token lists of the inputs and of the output are returned unchanged and in
\* order (writing them out again gives the signature); without checks neither
\* condition raises.
C11_ParserChecks ==
    (Parsed /\ _SIGNATURE(args.signature)) =>
        LET sig == SplitShapes(args.signature)
        IN  /\ (pc = "raised") <=>
                    (args.all_checks /\ (OutputOnlyName(sig) \/ FrozenOptional(sig)))
            /\ pc = "raised" => error \in {"only out", "frozen optional"}
            /\ pc = "done" =>
                    /\ ret = sig
                    /\ WriteSignature(ret.input_shapes, <<ret.result_shape>>)
                           = Chomp(args.signature)

\* a name marked optional in the output and absent from the inputs is rejected
C11_Witness ==
    /\ pc = "raised"
    /\ error = "only out"
    /\ args.signature = <<"(", "n", ")", "-", ">", "(", "m", "?", ")">>

\* the single-output grammar without its limit of NDIM_MAX dimensions per shape,
\* any number of outputs
WellFormedUncapped(s) ==
    LET j == _ARGUMENT_LIST(s, 1, TRUE, Len(s) + 1)
    IN  /\ j # 0
        /\ Arrow(s, j)
        /\ LET k == _ARGUMENT_LIST(s, j + 2, TRUE, Len(s) + 1) IN k # 0 /\ AtEnd(s, k)

\* the number of commas between the parenthesis at i and the one that closes it
RECURSIVE Commas(_, _)
Commas(s, i) ==
    IF i > Len(s) \/ s[i] = ")" THEN 0
    ELSE (IF s[i] = "," THEN 1 ELSE 0) + Commas(s, i + 1)

SomeShapeTooLong(s) ==
    \E i \in 1..Len(s) : s[i] = "(" /\ Commas(s, i + 1) >= NDIM_MAX

\* C12 as stated: a signature that does not match the single-output grammar is
\* rejected with the multiple-outputs error if it matches the multi-output
\* grammar, otherwise the more-than-32-dimensions error if it is otherwise
\* well-formed but some shape has more than 32 tokens, otherwise the generic error.
C12_RejectionOrder ==
    (Parsed /\ ~ _SIGNATURE(args.signature)) =>
        /\ pc = "raised"
        /\ error = IF _SIGNATURE_MULTIPLE_OUTPUT(args.signature)
                   THEN "multiple output arrays"
                   ELSE IF WellFormedUncapped(args.signature)
                           /\ SomeShapeTooLong(args.signature)
                   THEN "more than NDIM_MAX dimensions"
                   ELSE "not a valid gufunc signature"

\* C12 amended: the more-than-32-dimensions error is chosen only when, besides,
\* no dimension of the signature is marked optional; a signature over the limit
\* with a "?" in it gets the generic error.
C12_RejectionOrderUnmarked ==
    (Parsed /\ ~ _SIGNATURE(args.signature)) =>
        /\ pc = "raised"
        /\ ret = NoSig
        /\ error = IF _SIGNATURE_MULTIPLE_OUTPUT(args.signature)
                   THEN "multiple output arrays"
                   ELSE IF WellFormedUncapped(args.signature)
                           /\ SomeShapeTooLong(args.signature)
                           /\ ~ HasMark(args.signature)
                   THEN "more than NDIM_MAX dimensions"
                   ELSE "not a valid gufunc signature"

\* a shape of 33 unmarked dimensions among several outputs
C12_Witness ==
    /\ pc = "raised"
    /\ error = "more than NDIM_MAX dimensions"
    /\ args.signature = WriteSignature(<<Repeated(<<"a">>, NDIM_MAX + 1)>>, << << >>, << >> >>)

-----------------------------------------------------------------------------
(* Properties of the validators                                             *)

\* C13: order_check raises InvalidArgument exactly when floor > lo or lo > hi,
\* the violation of the floor being the one reported when both hold, and
\* otherwise returns with no effect; check_valid_dims raises exactly when
\* n > 32.
C13_ValidatorsRaise ==
    /\ (pc # "call" /\ args.api = "order_check") =>
          /\ (pc = "raised") <=> (args.floor > args.min_ \/ args.min_ > args.max_)
          /\ args.floor > args.min_ => error = "must be at least"
          /\ (args.floor <= args.min_ /\ args.min_ > args.max_) => error = "is larger than max"
          /\ pc = "done" => error = ""
    /\ (pc # "call" /\ args.api = "check_valid_dims") =>
          /\ (pc = "raised") <=> (args.dims > 32)
          /\ pc = "done" => error = ""
    /\ (pc # "call" /\ args.api \in {"order_check", "check_valid_dims"}) =>
          /\ strat = NoStrategy
          /\ ret = NoShapes

\* both orders are violated: the floor is the one reported
C13_Witness ==
    /\ pc = "raised"
    /\ args.api = "order_check"
    /\ args.floor > args.min_
    /\ args.min_ > args.max_
    /\ error = "must be at least"

-----------------------------------------------------------------------------
(* Properties of the basic indices                                          *)

IndexDrawn == args.api = "basic_indices" /\ pc = "done"

\* shape (3, 4), allow_newaxis=False, allow_ellipsis=False
Plain34 ==
    /\ args.api = "basic_indices"
    /\ args.shape = <<3, 4>>
    /\ ~ args.allow_newaxis
    /\ ~ args.allow_ellipsis

\* component k is an integer in range for axis k of the shape, or a slice
InRangeOrSlice(items, shape) ==
    \A k \in 1..Len(items) :
        /\ k <= Len(shape)
        /\ \/ items[k].kind = "slice"
           \/ /\ items[k].kind = "int"
              /\ 0 - shape[k] <= items[k].start
              /\ items[k].start <= shape[k] - 1

\* C14 as stated: for shape (3, 4) without new axes and without Ellipsis every
\* drawn index is a 2-tuple, or the bare element of a tuple of length 1, of
\* in-range integers and slices.
C14_TwoTuple ==
    (IndexDrawn /\ Plain34) =>
        /\ \/ ~ ret.bare /\ Len(ret.items) = 2
           \/ ret.bare /\ Len(ret.items) = 1
        /\ InRangeOrSlice(ret.items, args.shape)

\* C14 amended: the index is a tuple of at most two components, shorter than
\* two only by the trailing full slices that were trimmed, or the bare element
\* of such a tuple of length 1; each component is an integer in range for its
\* axis or a slice, none is None or Ellipsis, none addresses a third axis.
C14_AtMostTwoTuple ==
    (IndexDrawn /\ Plain34) =>
        /\ Len(ret.items) <= 2
        /\ ret.bare => Len(ret.items) = 1
        /\ InRangeOrSlice(ret.items, args.shape)
        /\ result_dims = CountSlices(ret.items) + (2 - Len(ret.items))
        /\ \A k \in 1..Len(ret.items) : ret.items[k] \notin {NewAxis, Ellipsis}

\* the second axis was a full slice and was trimmed; the tuple left was not
\* collapsed
C14_Witness ==
    /\ IndexDrawn
    /\ Plain34
    /\ ~ ret.bare
    /\ Len(ret.items) = 1
    /\ ret.items[1].kind = "int"

CountKind(items, kind) == Cardinality({k \in 1..Len(items) : items[k].kind = kind})

\* the number of axes of array[index] for an array of the given shape
AxesAfter(items, shape) == CountKind(items, "None") + Len(shape) - CountKind(items, "int")

\* C15: for every index returned, the number of axes that applying it gives,
\* (number of None components) + len(shape) - (number of integer components),
\* lies in [min_dims, max_dims]; a draw outside that range is rejected and
\* returns nothing.
C15_AxesWithinDims ==
    args.api = "basic_indices" =>
        /\ pc = "done" =>
              /\ strat.min_dims <= AxesAfter(ret.items, args.shape)
              /\ AxesAfter(ret.items, args.shape) <= strat.max_dims
        /\ pc \in {"shorten", "trim", "collapse", "done"} =>
              /\ AxesAfter(result, args.shape) = result_dims
              /\ strat.min_dims <= result_dims
              /\ result_dims <= strat.max_dims
        /\ pc = "rejected" =>
              /\ ~ (strat.min_dims <= AxesAfter(result, args.shape)
                    /\ AxesAfter(result, args.shape) <= strat.max_dims)
              /\ ret = NoShapes

\* an index with a new axis, an integer and Ellipsis
C15_Witness ==
    /\ IndexDrawn
    /\ CountKind(ret.items, "None") >= 1
    /\ CountKind(ret.items, "int") >= 1
    /\ CountKind(ret.items, "Ellipsis") = 1

-----------------------------------------------------------------------------
(* Properties of valid_tuple_axes                                           *)

\* C16: every tuple drawn from valid_tuple_axes(ndim, min_size, max_size) has a
\* length in [min_size, max_size], max_size being ndim when not given and the
\* call being rejected when max_size is above ndim; every entry lies in
\* [-ndim, ndim - 1]; no two entries are the same axis modulo ndim.
C16_ValidTupleAxes ==
    args.api = "valid_tuple_axes" =>
        LET max_size == IF args.max_size = None THEN args.ndim ELSE args.max_size
        IN  /\ (pc # "call" /\ max_size > args.ndim) => pc = "raised"
            /\ pc = "done" =>
                  /\ args.min_size <= Len(ret)
                  /\ Len(ret) <= max_size
                  /\ \A k \in 1..Len(ret) :
                        0 - args.ndim <= ret[k] /\ ret[k] <= args.ndim - 1
                  /\ \A k, l \in 1..Len(ret) :
                        k # l => (ret[k] + args.ndim) % args.ndim
                                    # (ret[l] + args.ndim) % args.ndim

\* every axis is named, one of them from the end
C16_Witness ==
    /\ args.api = "valid_tuple_axes"
    /\ pc = "done"
    /\ args.ndim >= 2
    /\ Len(ret) = args.ndim
    /\ \E k \in 1..Len(ret) : ret[k] < 0
    /\ \E k \in 1..Len(ret) : ret[k] >= 0

-----------------------------------------------------------------------------
(* Properties of a repeated draw                                            *)

\* C17: a second draw from the same strategy that is given, draw by draw, the
\* results the first one was given makes the same primitive draws in the same
\* order and returns the same input_shapes and result_shape, with and without
\* a signature.
C17_SameDrawsSameShapes ==
    first.run = 2 =>
        /\ Len(trace) <= Len(first.trace)
        /\ \A k \in 1..Len(trace) : trace[k] = first.trace[k]
        /\ pc = "done" => (trace = first.trace /\ ret = first.ret)
        /\ pc # "failed"

\* a second draw with a signature that drew an omitted dimension again
C17_Witness ==
    /\ first.run = 2
    /\ pc = "done"
    /\ strat.signature = "(m?),(n)->(m?,n)"
    /\ \E k \in 1..Len(trace) : trace[k] = <<"bits", 0>>
    /\ \E k \in 1..Len(trace) : trace[k][1] = "biased_coin"
    /\ ret = first.ret

-----------------------------------------------------------------------------
(* arrays and ArrayStrategy (array_api.py)                                  *)

\* Python numbers that are drawn as elements and fill values: 0, 1, 2, ... are
\* themselves, nan is float("nan") and inf is float("inf")
nan == -3
inf == 1000000

\* the largest finite value of float32 on the scale of the model: a float
\* above it is a finite Python float that float32 cannot hold
FloatMax == 3

\* the largest array_size
MaxSize == 2

\* the rejections of a cu.many after which the engine gives up
MaxRejections == 2

\* math.prod(shape)
RECURSIVE prod(_)
prod(shape) == IF shape = << >> THEN 1 ELSE Head(shape) * prod(Tail(shape))

\* the array module cannot convert the value at all ("result[i] = val" and
\* xp.full raise): an integer dtype has no nan and no inf
CannotConvert(dtype, val) == dtype = "uint8" /\ val \in {nan, inf}

\* what "result[i] = val" and xp.full(..., val, dtype=dtype) store: an integer
\* dtype wraps, a float dtype overflows to inf
Stored(dtype, val) ==
    IF dtype = "uint8" THEN val % 256
    ELSE IF val = nan THEN nan
    ELSE IF val > FloatMax THEN inf
    ELSE val

\* xp.isfinite
isfinite(val_0d) == val_0d \notin {nan, inf}

\* whatever is not finite is held to be a nan
isnan_NotFinite(val_0d) == ~isfinite(val_0d)

\* xp.isnan
isnan(val_0d) == val_0d = nan

\* check_set_value raises InvalidArgument ("cannot be represented as dtype"):
\* "finite and self.builtin(val_0d) != val"
check_set_value(val, val_0d) == isfinite(val_0d) /\ val_0d # val

\* no value is ever found in seen
InSeen_Never(val, seen_) == {FALSE}

\* the outcomes of "val in seen": Python finds an equal member, and nan equals
\* nothing, so that a nan is found only when it is the very object put in before
InSeen(val, seen_) ==
    IF val = nan /\ nan \in seen_ THEN BOOLEAN ELSE {val \in seen_}

\* cu.many(data, min_size, max_size, average_size)
many(min_size, max_size) ==
    [min_size |-> min_size, max_size |-> max_size, count |-> 0, rejections |-> 0]

\* the results elements.more() can have: below min_size it goes on, at
\* max_size it stops, and in between the data decides; after too many
\* rejections it stops as soon as min_size is reached
more(m) ==
    IF m.count < m.min_size THEN {TRUE}
    ELSE IF m.count >= m.max_size \/ m.rejections > MaxRejections THEN {FALSE}
    ELSE BOOLEAN

\* more() has returned True and the element was kept: it counts
counted(m) == [m EXCEPT !.count = @ + 1]

\* elements.reject(): the element just drawn does not count
reject(m) == [m EXCEPT !.rejections = @ + 1]

\* reject() gives the whole test case up: too many rejections below min_size
gives_up(m) == m.rejections > MaxRejections /\ m.count < m.min_size

\* the array a draw returns
Array(shape, data) == [shape |-> shape, data |-> data]

\* xp.zeros(n), xp.full(n, fill_value)
zeros(n) == [k \in 1..n |-> 0]
full(n, fill_value) == [k \in 1..n |-> fill_value]

NoArrayStrategy ==
    [f |-> "None", elements_strategy |-> {}, dtype |-> "", shape |-> << >>, fill |-> {},
     unique |-> FALSE, array_size |-> 0]

\* ArrayStrategy.__init__
ArrayStrategy(elements_strategy, dtype, shape, fill, unique) ==
    [f |-> "ArrayStrategy", elements_strategy |-> elements_strategy, dtype |-> dtype,
     shape |-> shape, fill |-> fill, unique |-> unique, array_size |-> prod(shape)]

\* arrays(xp, dtype, shape, elements=..., fill=..., unique=...): a strategy is
\* the set of values it draws from, nothing() is {} and fill=None is {None}
ArrayCall(dtype, shape, elements_, fill, unique, reusable) ==
    [f |-> "arrays", dtype |-> dtype, shape |-> shape, elements |-> elements_,
     fill |-> fill, unique |-> unique, has_reusable_values |-> reusable]

ArrayShapes == {<<n>> : n \in 0..MaxSize} \cup {<<1, 2>>, <<2, 0>>}

ArrayCalls ==
    {ArrayCall("uint8", shape, elements_, fill, unique, reusable) :
        shape \in ArrayShapes, elements_ \in {{0, 1}, {0, 1, 2}, {1, 256}},
        fill \in {{None}, {}, {0}, {nan}}, unique \in BOOLEAN, reusable \in BOOLEAN}
    \cup {ArrayCall("float32", shape, elements_, fill, unique, TRUE) :
            shape \in ArrayShapes,
            elements_ \in {{0, 1}, {0, 1, 2}, {0, nan}, {1, inf},
                           {FloatMax + 1, FloatMax + 2}},
            fill \in {{None}, {}, {nan}, {0}, {nan, 1}, {FloatMax + 1}, {inf}},
            unique \in BOOLEAN}

\* arrays() returns the strategy; without a fill argument a unique array and
\* elements that cannot be reused get no fill
arrays ==
    /\ pc = "call"
    /\ args.f = "arrays"
    /\ LET fill == IF args.fill = {None}
                   THEN IF args.unique \/ ~args.has_reusable_values
                        THEN {} ELSE args.elements
                   ELSE args.fill
       IN strat' = ArrayStrategy(args.elements, args.dtype, args.shape, fill, args.unique)
    /\ pc' = "ready"
    /\ UNCHANGED <<args, error, coreVars, loopVars, ndraws, loop, ret, trace, first,
                   otherVars>>

arrayFrame == <<args, strat, coreVars, loopVars, ndraws, loop, trace, first, result_dims,
                warnings>>

\* ArrayStrategy.do_draw up to its loops: an array with an axis of size zero is
\* returned at once; without a fill the array starts as zeros; with one the
\* fill value is drawn, the array is made of it and it is checked
ArrayStrategy_do_draw ==
    /\ pc = "ready"
    /\ strat.f = "ArrayStrategy"
    /\ element_draws' = 0
    /\ i_' = 0
    /\ seen' = {}
    /\ index_set' = {}
    /\ \/ /\ \E k \in 1..Len(strat.shape) : strat.shape[k] = 0
          /\ ret' = Array(strat.shape, zeros(strat.array_size))
          /\ pc' = "done"
          /\ UNCHANGED <<error, result, elements, fill_val>>
       \/ /\ \A k \in 1..Len(strat.shape) : strat.shape[k] # 0
          /\ strat.fill = {}
          /\ result' = zeros(strat.array_size)
          /\ IF strat.unique
             THEN /\ elements' = many(strat.array_size, strat.array_size)
                  /\ pc' = "unique"
             ELSE /\ pc' = "dense"
                  /\ UNCHANGED elements
          /\ UNCHANGED <<error, ret, fill_val>>
       \/ /\ \A k \in 1..Len(strat.shape) : strat.shape[k] # 0
          /\ strat.fill # {}
          /\ \E drawn \in strat.fill :
                LET sample == Stored(strat.dtype, drawn)
                IN /\ fill_val' = drawn
                   /\ IF CannotConvert(strat.dtype, drawn)
                      THEN /\ error' = "Could not create full array"
                           /\ pc' = "raised"
                           /\ UNCHANGED <<result, elements>>
                      ELSE IF check_set_value(drawn, sample)
                      THEN /\ error' = "cannot be represented as dtype"
                           /\ pc' = "raised"
                           /\ result' = full(strat.array_size, sample)
                           /\ UNCHANGED elements
                      ELSE IF strat.unique /\ ~isnan(sample)
                      THEN /\ error' = "Cannot fill unique array with non-NaN values"
                           /\ pc' = "raised"
                           /\ result' = full(strat.array_size, sample)
                           /\ UNCHANGED elements
                      ELSE /\ result' = full(strat.array_size, sample)
                           /\ elements' = many(0, strat.array_size)
                           /\ pc' = "sparse"
                           /\ UNCHANGED error
          /\ UNCHANGED ret
    /\ UNCHANGED arrayFrame

\* set_value(result, i, val) at the 0-based index at: the value is stored and
\* then checked
set_value(at, val, then) ==
    /\ result' = [result EXCEPT ![at + 1] = Stored(strat.dtype, val)]
    /\ IF check_set_value(val, Stored(strat.dtype, val))
       THEN /\ error' = "cannot be represented as dtype"
            /\ pc' = "raised"
       ELSE /\ pc' = then
            /\ UNCHANGED error

\* one turn of "while elements.more()" of the dense unique array: a value is
\* drawn; one that is in seen is rejected, another one is put into seen and
\* written at i, and i moves on
DrawUnique ==
    /\ pc = "unique"
    /\ IF TRUE \in more(elements)
       THEN \E val \in strat.elements_strategy : \E found \in InSeen(val, seen) :
                /\ element_draws' = element_draws + 1
                /\ IF found
                   THEN /\ elements' = reject(elements)
                        /\ pc' = IF gives_up(reject(elements)) THEN "invalid" ELSE "unique"
                        /\ UNCHANGED <<error, result, seen, i_>>
                   ELSE /\ seen' = seen \cup {val}
                        /\ set_value(i_, val, "unique")
                        /\ IF check_set_value(val, Stored(strat.dtype, val))
                           THEN UNCHANGED <<i_, elements>>
                           ELSE /\ i_' = i_ + 1
                                /\ elements' = counted(elements)
       ELSE /\ pc' = "reshape"
            /\ UNCHANGED <<error, result, seen, i_, elements, element_draws>>
    /\ UNCHANGED <<arrayFrame, ret, index_set, fill_val>>

\* one turn of "for i in range(self.array_size)" of the dense array
DrawDense ==
    /\ pc = "dense"
    /\ IF i_ < strat.array_size
       THEN \E val \in strat.elements_strategy :
                /\ element_draws' = element_draws + 1
                /\ set_value(i_, val, "dense")
                /\ i_' = IF check_set_value(val, Stored(strat.dtype, val)) THEN i_ ELSE i_ + 1
       ELSE /\ pc' = "reshape"
            /\ UNCHANGED <<error, result, i_, element_draws>>
    /\ UNCHANGED <<arrayFrame, ret, seen, index_set, elements, fill_val>>

\* one turn of "while elements.more()" of the array with a fill: an index is
\* drawn, and a value unless the index is taken; a unique array rejects a value
\* that is in seen
DrawSparse ==
    /\ pc = "sparse"
    /\ \E go_on \in more(elements) :
        IF go_on
        THEN \E at \in 0..(strat.array_size - 1) :
                IF at \in index_set
                THEN /\ elements' = reject(elements)
                     /\ pc' = IF gives_up(reject(elements)) THEN "invalid" ELSE "sparse"
                     /\ i_' = at
                     /\ UNCHANGED <<error, result, seen, index_set, element_draws>>
                ELSE \E val \in strat.elements_strategy : \E found \in InSeen(val, seen) :
                        /\ element_draws' = element_draws + 1
                        /\ i_' = at
                        /\ IF strat.unique /\ found
                           THEN /\ elements' = reject(elements)
                                /\ pc' = IF gives_up(reject(elements))
                                         THEN "invalid" ELSE "sparse"
                                /\ UNCHANGED <<error, result, seen, index_set>>
                           ELSE /\ seen' = IF strat.unique THEN seen \cup {val} ELSE seen
                                /\ set_value(at, val, "sparse")
                                /\ IF check_set_value(val, Stored(strat.dtype, val))
                                   THEN UNCHANGED <<index_set, elements>>
                                   ELSE /\ index_set' = index_set \cup {at}
                                        /\ elements' = counted(elements)
        ELSE /\ pc' = "reshape"
             /\ UNCHANGED <<error, result, seen, i_, index_set, elements, element_draws>>
    /\ UNCHANGED <<arrayFrame, ret, fill_val>>

\* "result = self.xp.reshape(result, self.shape); return result"
Reshape ==
    /\ pc = "reshape"
    /\ ret' = Array(strat.shape, result)
    /\ pc' = "done"
    /\ UNCHANGED <<arrayFrame, error, result, seen, i_, index_set, elements, fill_val,
                   element_draws>>

InitArray == Start(ArrayCalls)
NextArray ==
    \/ arrays
    \/ ArrayStrategy_do_draw
    \/ DrawUnique
    \/ DrawDense
    \/ DrawSparse
    \/ Reshape
ArraySpec == InitArray /\ [][NextArray]_vars

-----------------------------------------------------------------------------
(* Properties of ArrayStrategy.do_draw                                      *)

\* no two elements of the array are equal (a nan equals nothing)
Distinct(data) ==
    \A j, k \in DOMAIN data : j # k => (data[j] # data[k] \/ isnan(data[j]))

\* the step writes a value that was not found in seen at index i, puts it into
\* seen and leaves the rest of the array alone
WritesAccepted ==
    \E val \in strat.elements_strategy :
        /\ FALSE \in InSeen(val, seen)
        /\ seen' = seen \cup {val}
        /\ result' = [result EXCEPT ![i_ + 1] = Stored(strat.dtype, val)]

\* in the dense unique loop the array changes only by writing an accepted
\* value, i moves only by one and only when such a value was written, and the
\* loop ends only with i = array_size = the number of values that count
UniqueLoopStep ==
    pc = "unique" =>
        /\ result' # result => WritesAccepted
        /\ i_' # i_ => (i_' = i_ + 1 /\ WritesAccepted)
        /\ pc' = "reshape" =>
              (i_ = strat.array_size /\ elements.count = strat.array_size)

\* C18: an array drawn with unique=True and no fill has pairwise-distinct
\* elements: when the dense unique loop finishes it has written exactly
\* array_size accepted values at the indices 0..array_size-1, a value that is
\* in seen is never written, and the write index advances only on acceptance.
C18_UniqueElementsDistinct ==
    [][UniqueLoopStep /\ (pc = "unique" /\ pc' = "reshape" => Distinct(result'))]_vars

\* the same with the distinctness left out: what the loop does by itself
C18_UniqueLoop == [][UniqueLoopStep]_vars

\* a dense unique float32 array is returned whose two elements are both inf
C18_Overflowed ==
    /\ pc = "done"
    /\ strat.f = "ArrayStrategy" /\ strat.unique /\ strat.fill = {}
    /\ strat.dtype = "float32"
    /\ ret.data = <<inf, inf>>
    /\ Cardinality(seen) = 2

\* C19: with unique=True, a shape without an axis of size zero and a fill
\* strategy that is not empty, a draw whose fill value is not a nan raises
\* InvalidArgument, and no value was drawn from the elements strategy by then.
C19_NonNanFillRaises ==
    (/\ pc \notin {"call", "ready"}
     /\ strat.f = "ArrayStrategy"
     /\ strat.unique
     /\ \A k \in 1..Len(strat.shape) : strat.shape[k] # 0
     /\ strat.fill # {}
     /\ fill_val # nan)
        => /\ pc = "raised"
           /\ error \in {"Could not create full array", "cannot be represented as dtype",
                         "Cannot fill unique array with non-NaN values"}
           /\ element_draws = 0

\* a unique array was refused for a fill value that is not a nan
C19_Witness ==
    /\ pc = "raised"
    /\ strat.f = "ArrayStrategy" /\ strat.unique
    /\ strat.array_size = 2
    /\ fill_val \in {0, 1, inf}
    /\ error = "Cannot fill unique array with non-NaN values"
    /\ element_draws = 0

-----------------------------------------------------------------------------
(* integer_dtypes, unsigned_integer_dtypes and floating_dtypes              *)

\* numeric_dtype_names: f"{base_name}{size}", written <<base_name, size>>
numeric_dtype_names(base_name, sizes) ==
    [k \in 1..Len(sizes) |-> <<base_name, sizes[k]>>]

\* check_valid_sizes raises InvalidArgument: some size is not a valid one
check_valid_sizes(sizes, valid_sizes) ==
    \E k \in 1..Len(sizes) : sizes[k] \notin valid_sizes

\* getattr(xp, attr) succeeds: the module has the name
HasAttr(xp, attr) == attr \in xp.names

\* partition_attributes_and_stubs: the attributes the module has, as the
\* objects found under them, and the names it lacks, both in the order asked
partition_attributes_and_stubs(xp, attributes) ==
    [non_stubs |-> SelectSeq(attributes, LAMBDA attr : HasAttr(xp, attr)),
     stubs |-> SelectSeq(attributes, LAMBDA attr : ~HasAttr(xp, attr))]

\* the warning of warn_on_missing_dtypes, with the names it lists
MissingDtypes(stubs) == [category |-> "HypothesisWarning", about |-> "dtypes", stubs |-> stubs]

\* the warning of infer_xp_is_compliant
NotCompliant == [category |-> "HypothesisWarning", about |-> "Array API", stubs |-> << >>]

\* any missing name is warned about before it is looked whether one is there
check_dtypes_WarnsFirst(dtypes, stubs) ==
    IF Len(stubs) > 0 THEN [error |-> "", warned |-> {MissingDtypes(stubs)}]
    ELSE IF Len(dtypes) = 0 THEN [error |-> "required dtypes", warned |-> {}]
    ELSE [error |-> "", warned |-> {}]

\* check_dtypes: InvalidArgument when no dtype was found, else a warning when
\* some name was not
check_dtypes(dtypes, stubs) ==
    IF Len(dtypes) = 0 THEN [error |-> "required dtypes", warned |-> {}]
    ELSE IF Len(stubs) > 0 THEN [error |-> "", warned |-> {MissingDtypes(stubs)}]
    ELSE [error |-> "", warned |-> {}]

\* st.sampled_from(dtypes)
sampled_from(dtypes) == [f |-> "sampled_from", elements |-> dtypes]

\* the sizes argument is one int or a tuple of them
OneSize(size) == [int |-> TRUE, of |-> <<size>>]
SomeSizesOf(sizes) == [int |-> FALSE, of |-> sizes]

\* "if isinstance(sizes, int): sizes = (sizes,)"
Sizes(sizes) == sizes.of

\* the body the three functions share: the sizes are checked, the names are
\* looked up in the module, check_dtypes runs and the strategy is returned
DtypeStrategy(name, base_name, valid_sizes) ==
    /\ pc = "call"
    /\ args.f = name
    /\ LET sizes == Sizes(args.sizes)
           found == partition_attributes_and_stubs(
                        args.xp, numeric_dtype_names(base_name, sizes))
           checked == check_dtypes(found.non_stubs, found.stubs)
           inferred == IF args.xp.compliant THEN {} ELSE {NotCompliant}
       IN IF check_valid_sizes(sizes, valid_sizes)
          THEN /\ error' = "sizes are not valid"
               /\ pc' = "raised"
               /\ warnings' = warnings \cup inferred
               /\ UNCHANGED strat
          ELSE IF checked.error # ""
          THEN /\ error' = checked.error
               /\ pc' = "raised"
               /\ warnings' = warnings \cup inferred
               /\ UNCHANGED strat
          ELSE /\ strat' = sampled_from(found.non_stubs)
               /\ pc' = "ready"
               /\ warnings' = warnings \cup inferred \cup checked.warned
               /\ UNCHANGED error
    /\ UNCHANGED <<args, coreVars, loopVars, ndraws, loop, ret, trace, first, indexVars,
                   seen, i_, index_set, elements, fill_val, element_draws>>

integer_dtypes ==
    /\ args.f = "integer_dtypes"
    /\ DtypeStrategy("integer_dtypes", "int", {8, 16, 32, 64})

unsigned_integer_dtypes ==
    /\ args.f = "unsigned_integer_dtypes"
    /\ DtypeStrategy("unsigned_integer_dtypes", "uint", {8, 16, 32, 64})

floating_dtypes ==
    /\ args.f = "floating_dtypes"
    /\ DtypeStrategy("floating_dtypes", "float", {32, 64})

\* a dtype is drawn from the strategy
DrawDtype ==
    /\ pc = "ready"
    /\ strat.f = "sampled_from"
    /\ \E k \in 1..Len(strat.elements) : ret' = strat.elements[k]
    /\ pc' = "done"
    /\ UNCHANGED <<args, error, shapeVars, trace, first, otherVars>>

\* the base name and the default sizes of each function
BaseName(name) ==
    CASE name = "integer_dtypes" -> "int"
      [] name = "unsigned_integer_dtypes" -> "uint"
      [] name = "floating_dtypes" -> "float"

DefaultSizes(name) == IF name = "floating_dtypes" THEN <<32, 64>> ELSE <<8, 16, 32, 64>>

\* the sizes argument: the default, one int, tuples, the empty tuple, a size
\* that is not valid
SomeSizes(name) ==
    {SomeSizesOf(DefaultSizes(name)), OneSize(DefaultSizes(name)[1]),
     SomeSizesOf(<<DefaultSizes(name)[1]>>),
     SomeSizesOf(<<DefaultSizes(name)[2], DefaultSizes(name)[1]>>),
     SomeSizesOf(<<64, 64>>), SomeSizesOf(<< >>), SomeSizesOf(<<64, 7>>), OneSize(128)}

\* array modules: compliant or not, with any of the names of the category and
\* perhaps a name of another one
SomeModules(name) ==
    {[compliant |-> c, names |-> present \cup other] :
        c \in BOOLEAN,
        present \in SUBSET {<<BaseName(name), DefaultSizes(name)[k]>> :
                               k \in 1..Len(DefaultSizes(name))},
        other \in {{}, {<<"bool", 0>>}}}

DtypeCalls ==
    UNION {{[f |-> name, xp |-> xp, sizes |-> sizes] :
                xp \in SomeModules(name), sizes \in SomeSizes(name)} :
           name \in {"integer_dtypes", "unsigned_integer_dtypes", "floating_dtypes"}}

InitDtype == Start(DtypeCalls)
NextDtype ==
    \/ integer_dtypes
    \/ unsigned_integer_dtypes
    \/ floating_dtypes
    \/ DrawDtype
DtypeSpec == InitDtype /\ [][NextDtype]_vars

-----------------------------------------------------------------------------
(* Properties of the dtype strategies                                       *)

\* the sizes asked for, as a tuple, and whether check_valid_sizes accepts them
AskedSizes == args.sizes.of
ValidSizes ==
    \A k \in 1..Len(AskedSizes) :
        AskedSizes[k] \in {DefaultSizes(args.f)[j] : j \in 1..Len(DefaultSizes(args.f))}

\* the dtype names the call asks for and those of them the module has
Requested == {<<BaseName(args.f), AskedSizes[k]>> : k \in 1..Len(AskedSizes)}
Provided == Requested \cap args.xp.names

\* the warnings about missing dtypes
MissingWarnings == {w \in warnings : w.about = "dtypes"}

\* C20: for integer_dtypes, unsigned_integer_dtypes and floating_dtypes called
\* with valid sizes: when the module has none of the requested dtypes the call
\* raises InvalidArgument; when it has some but not all, a HypothesisWarning
\* that names the missing dtypes is emitted and only dtypes of the module can be
\* drawn; when it has all, no warning about missing dtypes is emitted.
C20_MissingDtypes ==
    (pc # "call" /\ ValidSizes) =>
        /\ Provided = {} => (pc = "raised" /\ error = "required dtypes")
        /\ (Provided # {} /\ Provided # Requested) =>
              /\ pc \in {"ready", "done"}
              /\ \E w \in MissingWarnings :
                    /\ w.category = "HypothesisWarning"
                    /\ {w.stubs[k] : k \in 1..Len(w.stubs)} = Requested \ Provided
              /\ \A k \in 1..Len(strat.elements) : strat.elements[k] \in args.xp.names
              /\ pc = "done" => ret \in Provided
        /\ Provided = Requested => MissingWarnings = {}

\* a dtype was drawn from a module that lacks one of the dtypes asked for, and
\* the warning names it
C20_Witness ==
    /\ pc = "done"
    /\ args.f = "unsigned_integer_dtypes"
    /\ args.sizes = SomeSizesOf(<<16, 8>>)
    /\ args.xp.names = {<<"uint", 8>>, <<"uint", 32>>}
    /\ ret = <<"uint", 8>>
    /\ MissingDtypes(<< <<"uint", 16>> >>) \in warnings

-----------------------------------------------------------------------------
(* Properties of the limit on the number of axes                            *)

\* the smallest number of core dimensions of a shape of the signature passed
ArgSigDims == SigDims(_GUfuncSig(args.signature))

\* the call passes a signature and no count of shapes
SignatureCall ==
    /\ args.api = "mutually_broadcastable_shapes"
    /\ args.num_shapes = not_set /\ args.signature # "not_set"

\* C21: with a signature, every returned input shape and the returned result
\* shape has at most NDIM_MAX axes, whatever the length of the base shape; a
\* strategy is only built with max_dims at most NDIM_MAX minus the smallest
\* number of core dimensions of the signature, and the constructor raises for
\* a max_dims above that.
C21_AtMostNdimMax ==
    /\ (Drawn /\ SignatureMode) =>
          \A k \in 1..Len(RetShapes) : Len(RetShapes[k]) <= NDIM_MAX
    /\ (Constructed /\ SignatureCall) =>
          /\ pc # "raised" => strat.max_dims <= NDIM_MAX - ArgSigDims
          /\ (args.max_dims # None /\ args.max_dims > NDIM_MAX - ArgSigDims)
               => (pc = "raised" /\ error # "")

\* "(i),(i)->()" was drawn with NDIM_MAX loop dimensions: each input shape is
\* cut to NDIM_MAX axes, the core dimension i among them
C21_Witness ==
    /\ Drawn /\ strat.signature = "(i),(i)->()"
    /\ strat.max_dims = NDIM_MAX - ArgSigDims
    /\ Len(loop.input_shapes[1]) + Len(core[1]) > NDIM_MAX
    /\ Len(ret.input_shapes[1]) = NDIM_MAX
    /\ ret.input_shapes[1][NDIM_MAX] = core[1][1]

-----------------------------------------------------------------------------
(* Properties of the loop over the loop dimensions                          *)

\* the kinds of the primitive draws made since the step began, in order
NewDraws == [k \in 1..(Len(trace') - Len(trace)) |-> trace'[Len(trace) + k][1]]

\* the draws one shape is given in the pass for dim_count, whatever its flag
DrawsOfShape ==
    (IF dim_count <= Len(strat.base_shape) /\ strat.min_side <= 1 /\ 1 <= strat.max_side
     THEN <<"sampled_from">> ELSE << >>)
    \o (IF strat.min_dims < dim_count THEN <<"biased_coin">> ELSE << >>)

\* the number of passes so far whose dim_count exceeds min_dims
CoinPasses(passes) == Max(0, passes - strat.min_dims)

\* C22: in a pass of the loop over the dimensions whose dim_count exceeds
\* min_dims, one coin is drawn for each shape, in use or not, and the draws of
\* a pass and their order do not depend on use; a pass is followed by another
\* exactly when a shape is still in use and dim_count is below max_dims, so
\* that no pass but the first starts with no shape in use and no pass is made
\* with dim_count above max_dims.
C22_CoinForEveryShape ==
    [][ /\ pc = "shape" =>
             /\ Len(trace') >= Len(trace) /\ SubSeq(trace', 1, Len(trace)) = trace
             /\ NewDraws = DrawsOfShape
             /\ ndraws'.coin = [ndraws.coin EXCEPT ![shape_id] =
                                   @ + (IF strat.min_dims < dim_count THEN 1 ELSE 0)]
             /\ \A k \in 1..strat.num_shapes :
                   ndraws.coin[k] = CoinPasses(IF k < shape_id THEN dim_count
                                               ELSE dim_count - 1)
        /\ pc = "end" =>
             /\ \A k \in 1..strat.num_shapes : ndraws.coin[k] = CoinPasses(dim_count)
             /\ dim_count <= strat.max_dims
             /\ IF AnyUse(use)
                THEN pc' = "loop" /\ dim_count' = dim_count + 1
                ELSE pc' = "return"
        /\ (pc = "loop" /\ pc' = "shape") =>
             /\ dim_count' = dim_count /\ dim_count <= strat.max_dims
             /\ dim_count > 1 => AnyUse(use)
        /\ (pc = "loop" /\ pc' # "shape") => dim_count = strat.max_dims + 1
      ]_vars

\* the first of two shapes stopped growing in the first pass and was given a
\* coin in the second pass all the same
C22_Witness ==
    /\ pc = "end" /\ dim_count = 2 /\ strat.num_shapes = 2
    /\ shapes[1] = << >> /\ Len(shapes[2]) = 2
    /\ ~ use[1]
    /\ ndraws.coin[1] = 2 /\ ndraws.coin[2] = 2
    /\ Len(trace) >= 4
    /\ trace[Len(trace) - 1][1] = "biased_coin"

\* the base shape has an entry at position p from the trailing end
BaseHas(p) == p <= Len(strat.base_shape)

\* C23: at the head of the pass for dim_count, dim_side is drawn from
\* [min_side, max_side] when the base shape has no entry at that position or
\* the entry is 1, it is the base entry when that is not 1 and at most
\* max_side, and 1 otherwise; in what the loop returns, at a position where
\* the base entry exceeds max_side every input shape that reaches the position
\* has side 1 and result_shape has the base entry.
C23_SharedSide ==
    /\ [][ (pc = "loop" /\ pc' = "shape") =>
             IF ~ BaseHas(dim_count) \/ TrailingSide(strat.base_shape, dim_count) = 1
             THEN /\ dim_side' \in strat.min_side..strat.max_side
                  /\ ndraws'.side = ndraws.side + 1
             ELSE /\ ndraws'.side = ndraws.side
                  /\ dim_side' = IF TrailingSide(strat.base_shape, dim_count) <= strat.max_side
                                 THEN TrailingSide(strat.base_shape, dim_count)
                                 ELSE 1
       ]_vars
    /\ [](Drawn =>
            \A p \in 1..Len(strat.base_shape) :
               TrailingSide(strat.base_shape, p) > strat.max_side =>
                  /\ \A k \in 1..Len(loop.input_shapes) :
                        Len(loop.input_shapes[k]) >= p
                           => TrailingSide(loop.input_shapes[k], p) = 1
                  /\ Len(loop.result_shape) >= p
                  /\ TrailingSide(loop.result_shape, p) = TrailingSide(strat.base_shape, p))

\* against base shape (3, 1) with max_side = 2, two shapes of two axes were
\* drawn: the leading axis of each is 1 and result_shape keeps the 3, while
\* the trailing side was drawn and is larger than 1 (the other side drawn is
\* that of the third pass, which ended the loop)
C23_Witness ==
    /\ Drawn /\ strat.base_shape = <<3, 1>> /\ strat.max_side = 2
    /\ strat.num_shapes = 2
    /\ Len(loop.input_shapes[1]) = 2 /\ Len(loop.input_shapes[2]) = 2
    /\ loop.input_shapes[1][1] = 1 /\ loop.input_shapes[2][1] = 1
    /\ loop.input_shapes[1][2] = 2
    /\ loop.result_shape = <<3, 2>>
    /\ ndraws.side = 2

-----------------------------------------------------------------------------
(* Properties of the loop that inserts new axes                             *)

\* the draw is in or past the loop that inserts new axes, which are allowed
NewaxisAllowed ==
    /\ args.api = "basic_indices"
    /\ pc \in {"newaxis", "shorten", "rejected"}
    /\ strat.allow_newaxis

\* C24: with allow_newaxis=True the loop that inserts new axes is left only
\* with result_dims at least min_dims; every pass inserts one None and leaves
\* the slices alone, and the None inserted are at most max_dims minus the
\* number of slices drawn for the axes of the shape (none when that number is
\* above max_dims); the draw is rejected only when that number is above
\* max_dims.
C24_NewaxisLoop ==
    /\ [][ (pc = "newaxis" /\ strat.allow_newaxis) =>
             IF pc' = "newaxis"
             THEN /\ result_dims < strat.max_dims
                  /\ result_dims' = result_dims + 1
                  /\ CountKind(result', "None") = CountKind(result, "None") + 1
                  /\ CountSlices(result') = CountSlices(result)
             ELSE /\ result_dims >= strat.min_dims
                  /\ result' = result
       ]_vars
    /\ [](NewaxisAllowed =>
            /\ strat.min_dims <= strat.max_dims
            /\ result_dims = CountSlices(result) + CountKind(result, "None")
            /\ IF CountSlices(result) <= strat.max_dims
               THEN CountKind(result, "None") <= strat.max_dims - CountSlices(result)
               ELSE CountKind(result, "None") = 0
            /\ pc = "rejected" => CountSlices(result) > strat.max_dims)

\* min_dims = max_dims = 2 against a shape of one axis, for which an integer
\* was drawn: the loop has inserted two None and the draw goes on
C24_Witness ==
    /\ NewaxisAllowed /\ pc = "shorten"
    /\ strat.min_dims = 2 /\ strat.max_dims = 2
    /\ Len(strat.shape) = 1
    /\ CountSlices(result) = 0
    /\ CountKind(result, "None") = 2

-----------------------------------------------------------------------------
(* Properties of the loop dimensions drawn with a signature                 *)

\* C25: with a signature the loop dimensions are drawn as without one: no
\* assertion of the loop fails; every input shape that was given loop
\* dimensions has between min_dims and max_dims of them; each of its sides is
\* 1 or the side the loop's result_shape has at the same position from the
\* trailing end; that result_shape is the broadcast of base_shape and the
\* loop dimensions of all inputs; and a returned shape that add_shape did not
\* cut begins with its loop dimensions.
C25_LoopPrefixes ==
    SignatureMode =>
        /\ pc # "failed"
        /\ Drawn =>
             /\ \A k \in 1..strat.num_shapes :
                   /\ loop.input_shapes[k] # << >> =>
                         /\ strat.min_dims <= Len(loop.input_shapes[k])
                         /\ Len(loop.input_shapes[k]) <= strat.max_dims
                   /\ \A p \in 1..Len(loop.input_shapes[k]) :
                         /\ p <= Len(loop.result_shape)
                         /\ \/ TrailingSide(loop.input_shapes[k], p) = 1
                            \/ TrailingSide(loop.input_shapes[k], p)
                                  = TrailingSide(loop.result_shape, p)
                   /\ Len(loop.input_shapes[k]) + Len(core[k]) <= NDIM_MAX =>
                         Prefix(ret.input_shapes[k], Len(loop.input_shapes[k]))
                            = loop.input_shapes[k]
             /\ Len(loop.result_shape) = MaxOf([k \in 1..Len(Operands) |-> Len(Operands[k])])
             /\ \A p \in 1..Len(loop.result_shape) :
                   /\ Cardinality(SidesAt(p) \ {1}) <= 1
                   /\ IF SidesAt(p) \ {1} = {} THEN TrailingSide(loop.result_shape, p) = 1
                      ELSE TrailingSide(loop.result_shape, p) \in SidesAt(p) \ {1}

\* "(m?,n),(n,p?)->(m?,p?)" against base shape (3, 1): the first input got
\* the loop dimension 2, the second the loop dimensions (1, 1), and the loop's
\* result_shape is (3, 2)
C25_Witness ==
    /\ Drawn /\ strat.signature = "(m?,n),(n,p?)->(m?,p?)"
    /\ strat.base_shape = <<3, 1>>
    /\ loop.input_shapes[1] = <<2>>
    /\ loop.input_shapes[2] = <<1, 1>>
    /\ loop.result_shape = <<3, 2>>
    /\ Len(ret.input_shapes[2]) = 4

-----------------------------------------------------------------------------
(* Properties of the omission of optional core dimensions                   *)

\* the matrix-multiplication signature is drawn from with min_dims = 0
Matmul ==
    /\ args.api = "mutually_broadcastable_shapes"
    /\ pc \notin {"call", "raised"}
    /\ strat.signature = "(m?,n),(n,p?)->(m?,p?)"
    /\ strat.min_dims = 0

\* the next pass of _draw_core_dimensions binds name and can omit it
CanOmit(name) == ENABLED (_draw_core_dimensions /\ dims'[name] = None)

\* the next pass of _draw_core_dimensions binds name and can keep it
CanKeep(name) == ENABLED (_draw_core_dimensions /\ dims'[name] # None)

\* the core dimensions kept of a shape
Kept(shape) == SelectSeq(shape, LAMBDA x : x # None)

\* C26: for "(m?,n),(n,p?)->(m?,p?)" with min_dims = 0, m can be omitted and
\* can be kept when it is bound, and so can p when it is bound, whatever was
\* decided for m; in what is returned the result shape has m exactly when
\* the first input has it and p exactly when the second input has it, and
\* every returned shape ends with its kept core dimensions.
C26_IndependentOmission ==
    Matmul =>
        /\ (pc = "core" /\ tok = 0) =>
              CanOmit(<<"m", "?">>) /\ CanKeep(<<"m", "?">>)
        /\ (pc = "core" /\ tok = 3) =>
              CanOmit(<<"p", "?">>) /\ CanKeep(<<"p", "?">>)
        /\ Drawn =>
              /\ core[3][1] = core[1][1]
              /\ core[3][2] = core[2][2]
              /\ core[1][2] # None /\ core[2][1] = core[1][2]
              /\ \A k \in 1..3 :
                    /\ Len(RetShapes[k]) >= Len(Kept(core[k]))
                    /\ Suffix(RetShapes[k], Len(Kept(core[k]))) = Kept(core[k])

\* a draw that omitted m and kept p was returned: the first input is (n), the
\* second ends with (n, p) and the result with (p)
C26_Witness ==
    /\ Matmul /\ Drawn
    /\ core[1][1] = None /\ core[2][2] # None
    /\ ret.input_shapes[1] = <<core[1][2]>>
    /\ Len(ret.result_shape) >= 1

\* the other three outcomes of the two decisions, each of them returned
C26_BothKept == Matmul /\ Drawn /\ core[1][1] # None /\ core[2][2] # None
C26_OnlyM == Matmul /\ Drawn /\ core[1][1] # None /\ core[2][2] = None
C26_NeitherKept == Matmul /\ Drawn /\ core[1][1] = None /\ core[2][2] = None

-----------------------------------------------------------------------------
(* Properties of the reduction of max_dims                                  *)

\* the call passed the checks of a constructor that did not check strictly
ReducedCall == Constructed /\ PlainCall /\ pc # "raised" /\ ~ Strict

\* the side of the base shape at position p from the trailing end is one a
\* broadcastable shape can align with
FeasibleAxis(p) ==
    LET s == TrailingSide(args.shape, p)
    IN  /\ s = 1 \/ s >= args.min_side
        /\ (args.min_side <= 1 /\ 1 <= EffMaxSide) \/ s <= EffMaxSide

\* C27: when a constructor that does not check strictly has passed its
\* checks, the max_dims of the strategy is at least min_dims and at most the
\* max_dims before the reduction; every axis of the base shape among the
\* trailing max_dims (of the strategy) is 1 or at least min_side, and at most
\* max_side unless side 1 is allowed; and when max_dims was reduced, the next
\* axis is not such an axis.
C27_ReducedMaxDims ==
    ReducedCall =>
        /\ args.min_dims <= strat.max_dims
        /\ strat.max_dims <= EffMaxDims
        /\ strat.max_side = EffMaxSide
        /\ \A p \in 1..Min(strat.max_dims, Len(args.shape)) : FeasibleAxis(p)
        /\ strat.max_dims < EffMaxDims =>
              /\ strat.max_dims < Len(args.shape)
              /\ ~ FeasibleAxis(strat.max_dims + 1)

\* broadcastable_shapes((3, 0, 2), min_dims=1, max_dims=3, min_side=2,
\* max_side=2): the axes 0 and 3 cannot be aligned with, max_dims is reduced
\* to 1
C27_Witness ==
    /\ ReducedCall /\ args.api = "broadcastable_shapes"
    /\ args.shape = <<3, 0, 2>> /\ args.min_dims = 1 /\ args.max_dims = 3
    /\ args.min_side = 2 /\ args.max_side = 2
    /\ strat.max_dims = 1

-----------------------------------------------------------------------------
(* Properties of the loop of the array with a fill (array_api.py)           *)

\* the turn of the loop was rejected: elements.reject() was called
Rejected == elements'.rejections = elements.rejections + 1

\* the turn wrote val, a value equal to none written before (a nan equals
\* nothing), at the index drawn and nowhere else
WritesAt(val) ==
    /\ result' = [result EXCEPT ![i_' + 1] = Stored(strat.dtype, val)]
    /\ strat.unique => (/\ val \notin seen \/ val = nan
                        /\ seen' = seen \cup {val})
    /\ ~ strat.unique => seen' = seen

\* C29: in the loop of the array with a fill, a rejected turn leaves the
\* array, index_set and seen as they were; when the index drawn was assigned
\* already no element is drawn, otherwise the array is unique and the one
\* element drawn was found in seen.  The array changes only at the index
\* drawn, which was not assigned before, by a value that with unique=True was
\* not in seen; an index is added to index_set only in such a turn.
C29_RejectedTurn ==
    [][ pc = "sparse" =>
          /\ Rejected =>
                /\ result' = result /\ index_set' = index_set /\ seen' = seen
                /\ IF i_' \in index_set
                   THEN element_draws' = element_draws
                   ELSE /\ strat.unique
                        /\ element_draws' = element_draws + 1
                        /\ seen # {}
          /\ (result' # result \/ seen' # seen \/ index_set' # index_set) =>
                /\ ~ Rejected
                /\ i_' \notin index_set
                /\ element_draws' = element_draws + 1
                /\ \E val \in strat.elements_strategy : WritesAt(val)
                /\ index_set' \in {index_set, index_set \cup {i_'}}
                /\ index_set' = index_set => pc' = "raised"
          /\ Cardinality(index_set) = elements.count
          /\ \A k \in 1..strat.array_size :
                (k - 1) \notin index_set => result[k] = Stored(strat.dtype, fill_val)
      ]_vars

\* a unique array with a fill had one turn rejected for its index and one for
\* its value, after one element was assigned
C29_Witness ==
    /\ pc = "sparse" /\ strat.unique /\ strat.array_size = 2
    /\ Cardinality(index_set) = 1
    /\ elements.rejections = 2
    /\ element_draws = 2
    /\ Cardinality(seen) = 1

-----------------------------------------------------------------------------
(* Properties of the Ellipsis and of the trimming of an index               *)

\* the number of axes of the array the components address: one for each
\* integer and each slice
Addressed(items) == CountKind(items, "int") + CountKind(items, "slice")

\* n full slices
FullSlices(n) == [k \in 1..n |-> FullSlice]

\* the index with full slices appended until ndim axes are addressed
Padded(items, ndim) == items \o FullSlices(ndim - Addressed(items))

\* the index with its Ellipsis replaced by the full slices it stands for
Expanded(items, ndim) ==
    IF CountKind(items, "Ellipsis") = 0 THEN items
    ELSE LET e == CHOOSE k \in 1..Len(items) : items[k] = Ellipsis
         IN  SubSeq(items, 1, e - 1) \o FullSlices(ndim - Addressed(items))
                \o SubSeq(items, e + 1, Len(items))

\* the components that are no full slice and no Ellipsis, in order
Selecting(items) == SelectSeq(items, LAMBDA x : x # FullSlice /\ x # Ellipsis)

\* C30: before the Ellipsis is put in or the index is trimmed, the index
\* addresses every axis of the shape.  Putting the Ellipsis in replaces full
\* slices only: with the Ellipsis replaced by the full slices that are needed
\* to address len(shape) axes the index is what it was.  A pass of the trimming
\* takes one full slice from the end: with full slices appended up to
\* len(shape) addressed axes the index is what it was.  What is returned has at
\* most one Ellipsis and addresses no more axes than the shape has.
C30_MeaningKept ==
    /\ [][ /\ (pc = "shorten" /\ pc' = "collapse") =>
                /\ CountKind(result', "Ellipsis") = 1
                /\ Expanded(result', Len(strat.shape)) = result
                /\ Selecting(result') = Selecting(result)
           /\ (pc = "shorten" /\ pc' = "trim") => result' = result
           /\ pc = "trim" =>
                /\ Padded(result', Len(strat.shape)) = Padded(result, Len(strat.shape))
                /\ Len(result') \in {Len(result), Len(result) - 1}
                /\ Len(result') < Len(result) => result[Len(result)] = FullSlice
                /\ CountKind(result', "Ellipsis") = 0
       ]_vars
    /\ [](args.api = "basic_indices" =>
            /\ pc = "shorten" =>
                  /\ Addressed(result) = Len(strat.shape)
                  /\ CountKind(result, "Ellipsis") = 0
            /\ pc = "trim" => Addressed(result) <= Len(strat.shape)
            /\ Drawn =>
                  /\ CountKind(ret.items, "Ellipsis") <= 1
                  /\ Addressed(ret.items) <= Len(strat.shape))

\* for the shape (0, 2) the full slice of the first axis was replaced by an
\* Ellipsis, and the None and the integer after it were kept
C30_Witness ==
    /\ Drawn /\ args.api = "basic_indices"
    /\ strat.shape = <<0, 2>>
    /\ ret.items = <<Ellipsis, NewAxis, Integer(1)>>

-----------------------------------------------------------------------------
(* arrays and ArrayStrategy of hypothesis.extra.numpy (numpy.py)            *)

\* fill_for(elements, unique, fill): nothing() is {} and fill=None is {None}
fill_for(elements_, unique, fill, reusable) ==
    IF fill = {None}
    THEN IF unique \/ ~ reusable THEN {} ELSE elements_
    ELSE fill

\* ArrayStrategy.__init__ of numpy.py
numpy_ArrayStrategy(element_strategy, shape, dtype, fill, unique) ==
    [f |-> "numpy.ArrayStrategy", elements_strategy |-> element_strategy, dtype |-> dtype,
     shape |-> shape, fill |-> fill, unique |-> unique, array_size |-> prod(shape)]

\* set_element raises InvalidArgument ("cannot be represented as dtype"):
\* "val != result[idx] and val == val"
Unrepresentable(val, stored) == val # stored /\ val # nan

\* "result[i] in seen": result[i] is a new scalar at every read, so that a nan
\* is never found
InArray(val_0d, seen_) == val_0d # nan /\ val_0d \in seen_

\* needs_fill.any(), needs_fill being True but at the indices of index_set
needs_fill_any(n, index_set_) == \E k \in 0..(n - 1) : k \notin index_set_

\* np.putmask leaves the array as it is
putmask_Skipped(result_, index_set_, value) == result_

\* np.putmask(result, needs_fill, one_element)
putmask(result_, index_set_, value) ==
    [k \in 1..Len(result_) |-> IF (k - 1) \notin index_set_ THEN value ELSE result_[k]]

NumpyCall(dtype, shape, elements_, fill, unique, reusable) ==
    [f |-> "numpy.arrays", dtype |-> dtype, shape |-> shape, elements |-> elements_,
     fill |-> fill, unique |-> unique, has_reusable_values |-> reusable]

NumpyCalls ==
    {NumpyCall("uint8", shape, elements_, fill, unique, reusable) :
        shape \in ArrayShapes, elements_ \in {{0, 1}, {0, 1, 2}, {1, 256}},
        fill \in {{None}, {}, {0}}, unique \in BOOLEAN, reusable \in BOOLEAN}
    \cup {NumpyCall("float32", shape, elements_, fill, unique, TRUE) :
            shape \in ArrayShapes,
            elements_ \in {{0, 1}, {0, 1, 2}, {0, nan}, {1, inf},
                           {FloatMax + 1, FloatMax + 2}},
            fill \in {{None}, {}, {nan}, {0}, {nan, 1}, {FloatMax + 1}},
            unique \in BOOLEAN}

\* arrays(dtype, shape, elements=..., fill=..., unique=...) of numpy.py
numpy_arrays ==
    /\ pc = "call"
    /\ args.f = "numpy.arrays"
    /\ strat' = numpy_ArrayStrategy(args.elements, args.shape, args.dtype,
                                    fill_for(args.elements, args.unique, args.fill,
                                             args.has_reusable_values),
                                    args.unique)
    /\ pc' = "ready"
    /\ UNCHANGED <<args, error, coreVars, loopVars, ndraws, loop, ret, trace, first,
                   otherVars>>

\* do_draw of numpy.py up to its loops: an array with an axis of size zero is
\* returned at once; otherwise the array starts as zeros
numpy_do_draw ==
    /\ pc = "ready"
    /\ strat.f = "numpy.ArrayStrategy"
    /\ element_draws' = 0
    /\ i_' = 0
    /\ seen' = {}
    /\ index_set' = {}
    /\ fill_val' = None
    /\ IF \E k \in 1..Len(strat.shape) : strat.shape[k] = 0
       THEN /\ ret' = Array(strat.shape, zeros(strat.array_size))
            /\ pc' = "done"
            /\ UNCHANGED <<result, elements>>
       ELSE /\ result' = zeros(strat.array_size)
            /\ UNCHANGED ret
            /\ IF strat.fill # {}
               THEN elements' = many(0, strat.array_size) /\ pc' = "np_sparse"
               ELSE IF strat.unique
               THEN elements' = many(strat.array_size, strat.array_size) /\ pc' = "np_unique"
               ELSE elements' = elements /\ pc' = "np_dense"
    /\ UNCHANGED <<arrayFrame, error>>

\* set_element(data, result, idx) for the value val that was drawn: it is
\* stored at the 0-based index idx and then compared with what the array holds
set_element(idx, val) ==
    /\ element_draws' = element_draws + 1
    /\ result' = [result EXCEPT ![idx + 1] = Stored(strat.dtype, val)]
    /\ error' = IF Unrepresentable(val, Stored(strat.dtype, val))
                THEN "cannot be represented as dtype" ELSE error

\* one turn of "while elements.more()" of the dense unique array: the element
\* is assigned at i first; when what the array holds then is in seen the turn
\* is rejected and i stays, otherwise it is put into seen and i moves on
numpy_DrawUnique ==
    /\ pc = "np_unique"
    /\ IF TRUE \in more(elements)
       THEN \E val \in strat.elements_strategy :
                /\ set_element(i_, val)
                /\ IF Unrepresentable(val, Stored(strat.dtype, val))
                   THEN pc' = "raised" /\ UNCHANGED <<seen, i_, elements>>
                   ELSE IF InArray(Stored(strat.dtype, val), seen)
                   THEN /\ elements' = reject(elements)
                        /\ pc' = IF gives_up(reject(elements)) THEN "invalid" ELSE "np_unique"
                        /\ UNCHANGED <<seen, i_>>
                   ELSE /\ seen' = seen \cup {Stored(strat.dtype, val)}
                        /\ i_' = i_ + 1
                        /\ elements' = counted(elements)
                        /\ pc' = "np_unique"
       ELSE /\ pc' = "np_reshape"
            /\ UNCHANGED <<error, result, seen, i_, elements, element_draws>>
    /\ UNCHANGED <<arrayFrame, ret, index_set, fill_val>>

\* one turn of "for i in range(len(result))" of the dense array
numpy_DrawDense ==
    /\ pc = "np_dense"
    /\ IF i_ < strat.array_size
       THEN \E val \in strat.elements_strategy :
                /\ set_element(i_, val)
                /\ IF Unrepresentable(val, Stored(strat.dtype, val))
                   THEN pc' = "raised" /\ UNCHANGED i_
                   ELSE pc' = "np_dense" /\ i_' = i_ + 1
       ELSE /\ pc' = "np_reshape"
            /\ UNCHANGED <<error, result, i_, element_draws>>
    /\ UNCHANGED <<arrayFrame, ret, seen, index_set, elements, fill_val>>

\* one turn of "while elements.more()" of the array with a fill: an index is
\* drawn; when it needs no fill the turn is rejected; otherwise the element is
\* assigned, and a unique array rejects the turn when what the array holds
\* then is in seen, leaving needs_fill[i] True
numpy_DrawSparse ==
    /\ pc = "np_sparse"
    /\ \E go_on \in more(elements) :
        IF go_on
        THEN \E at \in 0..(strat.array_size - 1) :
                /\ i_' = at
                /\ IF at \in index_set
                   THEN /\ elements' = reject(elements)
                        /\ pc' = "np_sparse"
                        /\ UNCHANGED <<error, result, seen, index_set, element_draws>>
                   ELSE \E val \in strat.elements_strategy :
                        /\ set_element(at, val)
                        /\ IF Unrepresentable(val, Stored(strat.dtype, val))
                           THEN pc' = "raised" /\ UNCHANGED <<seen, index_set, elements>>
                           ELSE IF strat.unique /\ InArray(Stored(strat.dtype, val), seen)
                           THEN /\ elements' = reject(elements)
                                /\ pc' = "np_sparse"
                                /\ UNCHANGED <<seen, index_set>>
                           ELSE /\ seen' = IF strat.unique
                                           THEN seen \cup {Stored(strat.dtype, val)}
                                           ELSE seen
                                /\ index_set' = index_set \cup {at}
                                /\ elements' = counted(elements)
                                /\ pc' = "np_sparse"
        ELSE /\ pc' = "np_fill"
             /\ UNCHANGED <<error, result, seen, i_, index_set, elements, element_draws>>
    /\ UNCHANGED <<arrayFrame, ret, fill_val>>

\* "if needs_fill.any()": the fill value is drawn into an array of one
\* element, a unique array takes a nan only, and the value is put wherever
\* needs_fill is True
numpy_Fill ==
    /\ pc = "np_fill"
    /\ IF needs_fill_any(strat.array_size, index_set)
       THEN \E drawn \in strat.fill :
                LET fill_value == Stored(strat.dtype, drawn)
                IN  /\ fill_val' = drawn
                    /\ element_draws' = element_draws + 1
                    /\ IF Unrepresentable(drawn, fill_value)
                       THEN /\ error' = "cannot be represented as dtype"
                            /\ pc' = "raised"
                            /\ UNCHANGED result
                       ELSE IF strat.unique /\ ~ isnan(fill_value)
                       THEN /\ error' = "Cannot fill unique array with non-NaN value"
                            /\ pc' = "raised"
                            /\ UNCHANGED result
                       ELSE /\ result' = putmask(result, index_set, fill_value)
                            /\ pc' = "np_reshape"
                            /\ UNCHANGED error
       ELSE /\ pc' = "np_reshape"
            /\ UNCHANGED <<error, result, fill_val, element_draws>>
    /\ UNCHANGED <<arrayFrame, ret, seen, i_, index_set, elements>>

\* "result = result.reshape(self.shape).copy(); return result"
numpy_Reshape ==
    /\ pc = "np_reshape"
    /\ ret' = Array(strat.shape, result)
    /\ pc' = "done"
    /\ UNCHANGED <<arrayFrame, error, result, seen, i_, index_set, elements, fill_val,
                   element_draws>>

InitNumpy == Start(NumpyCalls)
NextNumpy ==
    \/ numpy_arrays
    \/ numpy_do_draw
    \/ numpy_DrawUnique
    \/ numpy_DrawDense
    \/ numpy_DrawSparse
    \/ numpy_Fill
    \/ numpy_Reshape
NumpySpec == InitNumpy /\ [][NextNumpy]_vars

-----------------------------------------------------------------------------
(* Properties of do_draw of numpy.py with unique=True                       *)

NumpyUnique == pc # "call" /\ strat.f = "numpy.ArrayStrategy" /\ strat.unique

\* the turn assigned a value at index at (0-based), left the rest of the array
\* alone, found the value in seen and was rejected: at is not counted as done
RejectedAfterWrite(at) ==
    /\ Rejected
    /\ \A k \in 1..strat.array_size : k # at + 1 => result'[k] = result[k]
    /\ result'[at + 1] \in seen
    /\ seen' = seen /\ index_set' = index_set

\* the turn assigned at index at a value that was not in seen (or a nan) and
\* put it into seen
AcceptedWrite(at) ==
    /\ ~ Rejected
    /\ \A k \in 1..strat.array_size : k # at + 1 => result'[k] = result[k]
    /\ result'[at + 1] \notin seen \/ isnan(result'[at + 1])
    /\ seen' = seen \cup {result'[at + 1]}

\* the values at the given (0-based) indices are in seen and no two are equal
\* (a nan equals nothing)
Accepted(indices) ==
    /\ \A k \in indices : result[k + 1] \in seen
    /\ \A j, k \in indices : j # k => (result[j + 1] # result[k + 1] \/ isnan(result[j + 1]))

\* C28: with unique=True, a turn of the dense loop writes at i only; a
\* rejected one leaves i where it is, so that the loop, which ends only with
\* i = array_size, writes there again; the values below i are accepted ones.
\* A turn of the loop with a fill that is rejected after its write leaves
\* needs_fill True at its index; the values at the indices that need no fill
\* are accepted ones and are not written to again, and every index that needs
\* fill gets the fill value, a nan.  The array returned holds accepted values
\* and nan only, no two of them equal.
C28_RejectedNeverSurvives ==
    /\ [][ NumpyUnique =>
            /\ (pc = "np_unique" /\ result' # result) =>
                  /\ i_ < strat.array_size
                  /\ \/ RejectedAfterWrite(i_) /\ i_' = i_
                     \/ AcceptedWrite(i_) /\ i_' = i_ + 1
                     \/ pc' = "raised"
            /\ (pc = "np_unique" /\ pc' = "np_reshape") => i_ = strat.array_size
            /\ (pc = "np_sparse" /\ result' # result) =>
                  /\ i_' \notin index_set
                  /\ \/ RejectedAfterWrite(i_')
                     \/ AcceptedWrite(i_') /\ index_set' = index_set \cup {i_'}
                     \/ pc' = "raised"
            /\ (pc = "np_fill" /\ pc' = "np_reshape") =>
                  \A k \in 0..(strat.array_size - 1) :
                     result'[k + 1] = IF k \in index_set THEN result[k + 1] ELSE nan
       ]_vars
    /\ [](NumpyUnique =>
            /\ pc = "np_unique" => Accepted(0..(i_ - 1))
            /\ pc \in {"np_sparse", "np_fill"} => Accepted(index_set)
            /\ (Drawn /\ strat.array_size > 0) =>
                  /\ \A k \in 1..strat.array_size : ret.data[k] \in seen \cup {nan}
                  /\ Distinct(ret.data))

\* a unique array of two elements with a nan fill was returned after a turn
\* was rejected for its value: one element is an accepted value, the other is
\* the fill value, and the rejected value is in neither place
C28_Witness ==
    /\ Drawn /\ NumpyUnique /\ strat.array_size = 2
    /\ strat.fill # {}
    /\ elements.rejections >= 1
    /\ element_draws = 3
    /\ Cardinality(index_set) = 1
    /\ \E k \in 1..2 : ret.data[k] = nan
    /\ \E k \in 1..2 : ret.data[k] \in seen /\ ret.data[k] # nan

====
